---- MODULE Spec2Model ----
(***************************************************************************)
(* Model of the weeb-uploader reconciliation core.                         *)
(*                                                                         *)
(* Part 1: the Dump Resolver (ChapterTitleExportResolver), the Group       *)
(* Matcher (GroupMatcher.mapCsvGroupsToApiGroups) and the Change Engine    *)
(* (ChapterDumpApplier: ReleaseLookup, TitleResolver, ChapterFixes,        *)
(* Coordination.applyChangesFromDump), followed by the caller that writes  *)
(* the staged changes back to the chapters and runs the engine again.      *)
(*                                                                         *)
(* Part 2: the rate limiter (ApiWithRateLimit.wait) with its callers, each *)
(* of which may be suspended at the sleep.                                 *)
(*                                                                         *)
(* Part 3: the chain of rate limiters around a request                     *)
(* (RateLimitedRequest.execute) with its retry on HTTP 429.                *)
(* Part 4: the upload run of ChapterUploader (uploadAll,                   *)
(* uploadChapterWithRetry, the session cleanup), chapter.upload() being    *)
(* the environment.                                                        *)
(*                                                                         *)
(* JavaScript values: null is NULL, undefined (an omitted field) is        *)
(* UNDEFINED, strings are strings, arrays are sequences.                   *)
(***************************************************************************)
EXTENDS Integers, Sequences, FiniteSets, TLC

VARIABLES
    data,                 \* rows of chapter_dump.csv of the series, in file order
    availableScanGroups,  \* the remote group catalog handed to the engine
    options,              \* ApplyChangesOptions
    chapters,             \* the ChapterInput batch
    i,                    \* loop index of applyChangesFromDump (chapters done)
    results,              \* results pushed so far
    successCount,
    failedCount,
    calls,                \* per chapter, the resolver calls made for it, in order
    round,                \* 1: first run, 2: run on the corrected chapters
    firstChapters,        \* round 2: the batch the first run was given
    firstResults          \* round 2: what the first run returned

VARIABLES
    clock,                \* DateTime.now(), in milliseconds
    rateLimit,            \* ApiWithRateLimit.rateLimit
    rateLimitInterval,    \* ApiWithRateLimit.rateLimitInterval, in milliseconds
    lastBucketStart,      \* ApiWithRateLimit.lastBucketStart
    requestCount,         \* ApiWithRateLimit.requestCount
    callers,              \* per caller of wait(): where it is, and its locals
    admitted,             \* calls returned since lastBucketStart was last assigned
    history               \* the wait() calls made so far, in call order

VARIABLES
    limiters,             \* RateLimitedRequest.limiters, in constructor order
    method,               \* what the request does at each of its attempts
    executePc,            \* where execute() stands
    waitIndex,            \* limiters awaited so far in the current attempt
    waited,               \* the limiters whose wait() returned in this attempt
    attempts,             \* calls of method() so far
    lastError             \* what the last call of method() threw, if it threw

VARIABLES
    uploaderChapters,     \* ChapterUploader.chapters
    authToken,            \* ChapterUploader.authToken
    uploaderStatus,       \* ChapterUploader.status
    uploaderProgress,     \* ChapterUploader.progress, a fraction
    uploaderError,        \* ChapterUploader.error
    currentChapterIndex,  \* ChapterUploader.currentChapterIndex
    uploadAllPc,          \* where uploadAll() stands
    chaptersToUpload,     \* uploadAll's chaptersToUpload, as indexes of chapters
    attempt,              \* uploadChapterWithRetry's attempt
    delay,                \* the delay of the retry that is being slept
    chaptersAtStart,      \* the chapters as they were when uploadAll was called
    uploadCalls,          \* per chapter, the calls of upload() made in this run
    causes,               \* what each upload() of the current chapter ended in
    delaysSlept,          \* the delays slept between them
    cleanup,              \* what the session cleanup ended in: done, or the failure
    apiCalls,             \* the calls of uploadAll() and reset() so far, each with
                          \* the status it found
    uploadsInFlight       \* the calls of upload() that have not settled

engineVars == <<data, availableScanGroups, options, chapters, i, results,
                successCount, failedCount, calls, round, firstChapters, firstResults>>

limiterVars == <<clock, rateLimit, rateLimitInterval, lastBucketStart, requestCount,
                 callers, admitted, history>>

chainVars == <<limiters, method, executePc, waitIndex, waited, attempts, lastError>>

uploaderVars == <<uploaderChapters, authToken, uploaderStatus, uploaderProgress,
                  uploaderError, currentChapterIndex, uploadAllPc, chaptersToUpload,
                  attempt, delay, chaptersAtStart, uploadCalls, causes, delaysSlept, cleanup,
                  apiCalls, uploadsInFlight>>

\* Part 5: the guided chapter editor
VARIABLES
    seriesId,               \* targetingState.seriesId
    chapterStates,          \* the local chapters: volume, number, group ids
    aggregate,              \* the published chapters the remote service answers with
    chapterWarnings,        \* chapter index -> its warnings (their reasons)
    processingStep,
    dumpLookupFailed,
    dumpLookupFailedGroups, \* the number of groups that were not found
    lastProcessedSeriesId,
    automationActive,       \* automationState.isActive
    zipStatus,              \* the status of the zip in guidedState
    editorPc,               \* the position of the processing pipeline
    duplicatesChecked,      \* whether the warnings come from a check of these chapters
    pipelineTrace,          \* applyTitlesToChapters and checkForDuplicates, as the
                            \* pipeline path under way (or the last one) has run them
    uploadStarted           \* who called startUpload() and the warnings at that moment

editorVars == <<seriesId, chapterStates, aggregate, chapterWarnings, processingStep,
                dumpLookupFailed, dumpLookupFailedGroups, lastProcessedSeriesId,
                automationActive, zipStatus, editorPc, duplicatesChecked, pipelineTrace,
                uploadStarted>>

\* Part 6: the resolver's lazy load
VARIABLES
    csv,            \* the rows of chapter_dump.csv on the server
    resolverData,   \* ChapterTitleExportResolver.data: null, or the parsed rows
    loadPromise,    \* ChapterTitleExportResolver.loadPromise: none, or its state
    fetches,        \* the number of times chapter_dump.csv was fetched
    queryCallers    \* per caller of the resolver: its call and how it ended

resolverVars == <<csv, resolverData, loadPromise, fetches, queryCallers>>

\* Part 7: the uploader orchestrator in the guided editor
VARIABLES
    orchestratorStep,       \* processingStep of the editor that holds the orchestrator
    automationIsActive,     \* automationState.isActive
    uploadTimer,            \* the timeout of the editor's upload-trigger effect
    isUploading,
    chapterUploaders,       \* the ChapterUploader instances startUpload() has created
    orchestratorChapters    \* the status of each chapter of targetingState.chapterStates

orchestratorVars == <<orchestratorStep, automationIsActive, uploadTimer, isUploading,
                      chapterUploaders, orchestratorChapters>>

\* Part 8: one chapter of the chapter editor's state
VARIABLES
    editableChapter         \* an EditableChapter of ChapterEditorState.chapters

chapterEditorVars == <<editableChapter>>

vars == <<engineVars, limiterVars, chainVars, uploaderVars, editorVars, resolverVars, orchestratorVars, chapterEditorVars>>

NULL == "<null>"
UNDEFINED == "<undefined>"

\* ------------------------------------------------------------------ bounds
MaxEntries == 2
MaxBatch == 2

MaxCallers == 2
MaxClock == 4
MaxCalls == 4
MaxRateLimit == 2
MaxIntervalMs == 2
MaxAttempts == 3

\* ------------------------------------------------------- generic helpers
Range(s) == {s[k] : k \in 1..Len(s)}

RECURSIVE SeqFilter(_, _)
\* Array.prototype.filter with membership in `keep` as the predicate
SeqFilter(s, keep) ==
    IF s = <<>> THEN <<>>
    ELSE IF Head(s) \in keep THEN <<Head(s)>> \o SeqFilter(Tail(s), keep)
         ELSE SeqFilter(Tail(s), keep)

\* index of the first element of s that lies in `hit`, 0 when there is none
FirstIndexIn(s, hit) ==
    IF \E k \in 1..Len(s) : s[k] \in hit
    THEN CHOOSE k \in 1..Len(s) : s[k] \in hit /\ \A j \in 1..(k - 1) : s[j] \notin hit
    ELSE 0

RECURSIVE Dedup(_)
\* insertion-ordered set of the elements of s (Set / Map key order)
Dedup(s) ==
    IF s = <<>> THEN <<>>
    ELSE LET front == Dedup(SubSeq(s, 1, Len(s) - 1))
             last == s[Len(s)]
         IN IF last \in Range(front) THEN front ELSE Append(front, last)

\* A nullable object (X | null) is a sequence of at most one element.
None == <<>>
Some(x) == <<x>>

\* JavaScript `x || ''` on a string | null
OrEmpty(x) == IF x = NULL THEN "" ELSE x

\* JavaScript truthiness of a string | null
Truthy(x) == x # NULL /\ x # UNDEFINED /\ x # ""


\* --------------------------------------------------------- Dump Resolver
\* The '|'-separated pieces of a volume or chapter string, as String.split
\* yields them.  Only "1|5" holds a separator among the strings modelled.
Segments(s) == IF s = "1|5" THEN <<"1", "5">> ELSE <<s>>

\* `${volume}|${chapter}`: two keys are equal as strings exactly when their
\* '|'-separated pieces are equal, so a key is kept as its pieces.
MakeKey(volume, chapter) == Segments(volume) \o Segments(chapter)

\* the destructuring with the two pieces swapped
SplitKey_Swapped(key) == [volume |-> key[2], chapterNum |-> key[1]]

\* const [volume, chapterNum] = key.split('|')
SplitKey(key) == [volume |-> key[1], chapterNum |-> key[2]]

\* seriesMap.keys(): insertion order of the keys parseCSV created
SeriesKeys(rows) == Dedup([k \in 1..Len(rows) |-> MakeKey(rows[k].volume, rows[k].chapter)])

\* seriesMap.get(key): the rows pushed under the key, in file order
EntriesAt(rows, key) ==
    SeqFilter(rows, {r \in Range(rows) : MakeKey(r.volume, r.chapter) = key})

\* chapterInfos.filter((ci) => ci.language === language)
LanguageFiltered(infos, language) ==
    SeqFilter(infos, {r \in Range(infos) : r.language = language})

groupMatches(group, searchString) ==
    \/ group.primaryName = searchString
    \/ \E k \in 1..Len(group.altNames) : group.altNames[k] = searchString

\* groupNames.some(name => chapterInfo.groups.some(g => groupMatches(g, name)))
HasMatchingGroup(chapterInfo, groupNames) ==
    \E n \in 1..Len(groupNames) :
        \E g \in 1..Len(chapterInfo.groups) :
            groupMatches(chapterInfo.groups[g], groupNames[n])

findGroupPrimaryName(resolvedInfo, groupName) ==
    LET hit == {g \in Range(resolvedInfo.groups) : groupMatches(g, groupName)}
        k == FirstIndexIn(resolvedInfo.groups, hit)
    IN IF k = 0 THEN NULL ELSE resolvedInfo.groups[k].primaryName

\* chapterInfo.title && chapterInfo.title.trim() !== '' ? chapterInfo.title : null
\* (parseCSV reads the file with trim: true, so a title is never blank but empty)
TitleOrNull(title) == IF title # "" THEN title ELSE NULL

\* Object.keys(groupTitles), groupTitles[name], name in groupTitles; the object
\* is a sequence of [name, title] with distinct names in insertion order
ObjectKeys(groupTitles) == [k \in 1..Len(groupTitles) |-> groupTitles[k].name]
HasKey(groupTitles, name) == \E k \in 1..Len(groupTitles) : groupTitles[k].name = name
GetKey(groupTitles, name) ==
    groupTitles[CHOOSE k \in 1..Len(groupTitles) : groupTitles[k].name = name].title

\* "Build group to title mapping": the ResolvedChapterInfo of one row
BuildResolved(chapterInfo) ==
    LET names == Dedup([k \in 1..Len(chapterInfo.groups) |-> chapterInfo.groups[k].primaryName])
    IN [groups |-> chapterInfo.groups,
        groupTitles |-> [k \in 1..Len(names) |->
                            [name |-> names[k], title |-> TitleOrNull(chapterInfo.title)]],
        ungroupedTitles |-> IF Len(chapterInfo.groups) > 0 THEN <<>>
                            ELSE <<TitleOrNull(chapterInfo.title)>>]

\* exact lookup without groups: the first row of the language at the key
getChapterInfo(rows, volume, chapter, language) ==
    LET infos == LanguageFiltered(EntriesAt(rows, MakeKey(OrEmpty(volume), OrEmpty(chapter))),
                                  language)
    IN IF infos = <<>> THEN None ELSE Some(BuildResolved(infos[1]))

\* the group filter shared by getChapterInfoByGroups and
\* getChapterInfoByChapterAndGroups: ungrouped rows for an empty name list,
\* otherwise rows one of whose groups carries one of the names
GroupQualifies(chapterInfo, groupNames) ==
    IF Len(groupNames) = 0 THEN Len(chapterInfo.groups) = 0
    ELSE HasMatchingGroup(chapterInfo, groupNames)

\* exact lookup with groups: the first qualifying row of the language at the key
getChapterInfoByGroups(rows, volume, chapter, groupNames, language) ==
    LET infos == LanguageFiltered(EntriesAt(rows, MakeKey(OrEmpty(volume), OrEmpty(chapter))),
                                  language)
        k == FirstIndexIn(infos, {r \in Range(infos) : GroupQualifies(r, groupNames)})
    IN IF k = 0 THEN None ELSE Some(BuildResolved(infos[k]))

\* fallback lookup: the keys in insertion order whose chapter piece is the
\* queried chapter; the first qualifying row of the language; its volume piece
getChapterInfoByChapterAndGroups(rows, chapter, groupNames, language) ==
    LET keys == SeriesKeys(rows)
        Qualifying(key) ==
            LET infos == LanguageFiltered(EntriesAt(rows, key), language)
            IN SeqFilter(infos, {r \in Range(infos) : GroupQualifies(r, groupNames)})
        hit == {key \in Range(keys) :
                   SplitKey(key).chapterNum = OrEmpty(chapter) /\ Qualifying(key) # <<>>}
        k == FirstIndexIn(keys, hit)
    IN IF k = 0 THEN None
       ELSE Some([volume |-> SplitKey(keys[k]).volume,
                  info |-> BuildResolved(Qualifying(keys[k])[1])])

RECURSIVE Flatten(_)
Flatten(ss) == IF ss = <<>> THEN <<>> ELSE Head(ss) \o Flatten(Tail(ss))

\* groups of every row of the series (seriesMap.values(): key by key, rows in
\* file order under a key), the first Group seen per primary name
getAllGroups(rows) ==
    LET keys == SeriesKeys(rows)
        ordered == Flatten([k \in 1..Len(keys) |-> EntriesAt(rows, keys[k])])
        flat == Flatten([k \in 1..Len(ordered) |-> ordered[k].groups])
        names == Dedup([k \in 1..Len(flat) |-> flat[k].primaryName])
    IN [n \in 1..Len(names) |->
           flat[FirstIndexIn(flat, {g \in Range(flat) : g.primaryName = names[n]})]]

\* ---------------------------------------------------------- Group Matcher
\* mapping primaryName -> groupId, as the sequence of its entries
\* [name, id]; apiGroups.find takes the first catalog group that matches
mapCsvGroupsToApiGroups(csvGroups, apiGroups) ==
    LET Match(g) == FirstIndexIn(apiGroups,
                        {a \in Range(apiGroups) : groupMatches(g, a.groupName)})
        mapped == SeqFilter(csvGroups, {g \in Range(csvGroups) : Match(g) # 0})
    IN [k \in 1..Len(mapped) |->
           [name |-> mapped[k].primaryName, id |-> apiGroups[Match(mapped[k])].groupId]]


\* --------------------------------------------------------- Change Engine
WarningReason ==
    [NO_GROUPS |-> "no_groups", NO_VALID_GROUPS |-> "no_valid_groups",
     NO_CHAPTER_INFO |-> "no_chapter_info", NO_MATCHING_GROUP |-> "no_matching_group",
     VOLUME_MISMATCH |-> "volume_mismatch", PARTIAL_GROUP_MATCH |-> "partial_group_match",
     TITLE_RESOLUTION_NOT_FOUND |-> "title_resolution_not_found",
     DUPLICATE_CHAPTER |-> "duplicate_chapter"]

ChangeStatus == [SUCCESS |-> "success", NO_CHANGES |-> "no_changes", FAILED |-> "failed"]

\* Utils.isNoGroupPath: chapterPath?.includes('[no group]') ?? false, over the
\* folder paths modelled
PathNoGroup == "v1 c5 [no group]"
PathWithGroup == "v1 c5 [Foo]"
isNoGroupPath(chapterPath) == chapterPath = PathNoGroup

\* options.isNoGroupChapter(chapter), the predicate being the one the callers
\* pass: Utils.isNoGroupPath of the chapter's folder path
isNoGroupChapter(chapter) == isNoGroupPath(chapter.originalFolderPath)

\* Utils.createGroupIdToNameMap(...).get(id): the last catalog entry of an id
\* wins; UNDEFINED for an id the catalog does not hold
GroupIdToName(scanGroups, id) ==
    IF \E k \in 1..Len(scanGroups) : scanGroups[k].groupId = id
    THEN scanGroups[CHOOSE k \in 1..Len(scanGroups) :
                        /\ scanGroups[k].groupId = id
                        /\ \A j \in (k + 1)..Len(scanGroups) : scanGroups[j].groupId # id].groupName
    ELSE UNDEFINED

\* ids.map((id) => map.get(id)).filter((name) => name !== undefined)
GroupNamesOf(scanGroups, ids) ==
    LET named == [k \in 1..Len(ids) |-> GroupIdToName(scanGroups, ids[k])]
    IN SeqFilter(named, Range(named) \ {UNDEFINED})

\* ReleaseLookup.findReleasesForChapter: Some(ResolvedChapterInfo) or None
findReleasesForChapter(rows, volume, chapter, language, groupNames) ==
    IF Len(groupNames) > 0
    THEN getChapterInfoByGroups(rows, volume, chapter, groupNames, language)
    ELSE getChapterInfo(rows, volume, chapter, language)

\* matchChapterToRelease trying the fallback lookup whether or not the exact
\* lookup found a release
matchChapterToRelease_AlwaysFallback(chapter, rows, groupNames, useFallbackMatching) ==
    LET AfterExact(exact) ==
            LET tryFallback == useFallbackMatching /\ Truthy(chapter.chapterNumber)
                AfterFallback(fallbackResult) ==
                    LET usedFallback == tryFallback /\ fallbackResult # None
                        release == IF usedFallback THEN Some(fallbackResult[1].info) ELSE exact
                    IN [calls |-> IF tryFallback THEN <<"exact", "fallback">> ELSE <<"exact">>,
                        match |-> IF release = None THEN None
                                  ELSE Some([release |-> release[1],
                                             volume |-> IF usedFallback
                                                        THEN fallbackResult[1].volume
                                                        ELSE chapter.chapterVolume,
                                             usedFallback |-> usedFallback])]
            IN AfterFallback(IF tryFallback
                             THEN getChapterInfoByChapterAndGroups(
                                      rows, chapter.chapterNumber, groupNames, chapter.language)
                             ELSE None)
    IN AfterExact(findReleasesForChapter(rows, chapter.chapterVolume, chapter.chapterNumber,
                                         chapter.language, groupNames))

\* ReleaseLookup.matchChapterToRelease.  `match` is None or
\* Some(ReleaseMatchResult); `calls` lists the resolver lookups made.
matchChapterToRelease(chapter, rows, groupNames, useFallbackMatching) ==
    LET AfterExact(exact) ==
            LET tryFallback == exact = None /\ useFallbackMatching /\ Truthy(chapter.chapterNumber)
                AfterFallback(fallbackResult) ==
                    LET usedFallback == tryFallback /\ fallbackResult # None
                        release == IF usedFallback THEN Some(fallbackResult[1].info) ELSE exact
                    IN [calls |-> IF tryFallback THEN <<"exact", "fallback">> ELSE <<"exact">>,
                        match |-> IF release = None THEN None
                                  ELSE Some([release |-> release[1],
                                             volume |-> IF usedFallback
                                                        THEN fallbackResult[1].volume
                                                        ELSE chapter.chapterVolume,
                                             usedFallback |-> usedFallback])]
            IN AfterFallback(IF tryFallback
                             THEN getChapterInfoByChapterAndGroups(
                                      rows, chapter.chapterNumber, groupNames, chapter.language)
                             ELSE None)
    IN AfterExact(findReleasesForChapter(rows, chapter.chapterVolume, chapter.chapterNumber,
                                         chapter.language, groupNames))

\* ReleaseLookup.lookupChapterRelease: None or Some(ChapterRelease), the title
\* and the matched group still unresolved
lookupChapterRelease(chapter, rows, groupNames, useFallbackMatching) ==
    LET Release(m) ==
            [calls |-> m.calls,
             chapterRelease |->
                 IF m.match = None THEN None
                 ELSE Some([release |-> m.match[1].release,
                            volume |-> IF m.match[1].usedFallback THEN m.match[1].volume
                                       ELSE chapter.chapterVolume,
                            usedFallback |-> m.match[1].usedFallback,
                            title |-> NULL,
                            matchedGroupName |-> NULL])]
    IN Release(matchChapterToRelease(chapter, rows, groupNames, useFallbackMatching))

\* rawTitle === undefined || rawTitle === null || rawTitle === '' ? null : rawTitle
NormalizeTitle(rawTitle) ==
    IF rawTitle = UNDEFINED \/ rawTitle = NULL \/ rawTitle = "" THEN NULL ELSE rawTitle

\* TitleResolver.resolveTitleFromRelease: None or Some(TitleFromReleaseResult)
resolveTitleFromRelease(release, groupNames, chapterIsNoGroup) ==
    LET Primary(n) == findGroupPrimaryName(release, groupNames[n])
        Hits(n) == Truthy(Primary(n)) /\ HasKey(release.groupTitles, Primary(n))
        Resolved(matchedGroupName) ==
            LET title ==
                    IF matchedGroupName # NULL
                    THEN NormalizeTitle(GetKey(release.groupTitles, matchedGroupName))
                    ELSE IF chapterIsNoGroup /\ Len(release.ungroupedTitles) > 0
                         THEN NormalizeTitle(release.ungroupedTitles[1])
                         ELSE NULL
            IN IF title # NULL \/ matchedGroupName # NULL
               THEN Some([title |-> title, matchedGroupName |-> matchedGroupName])
               ELSE None
    IN Resolved(IF \E n \in 1..Len(groupNames) : Hits(n)
                THEN Primary(CHOOSE n \in 1..Len(groupNames) :
                                 Hits(n) /\ \A j \in 1..(n - 1) : ~Hits(j))
                ELSE NULL)

\* ChapterFixes.determineVolumeChange: the new volume, UNDEFINED for no change
determineVolumeChange(currentVolume, releaseVolume) ==
    LET newVolume == IF releaseVolume = "" THEN NULL ELSE releaseVolume
    IN IF currentVolume # newVolume THEN newVolume ELSE UNDEFINED

\* determineTitleChange returning the resolved title without comparing it
determineTitleChange_Uncompared(currentTitle, resolvedTitle) ==
    IF resolvedTitle = "" THEN NULL ELSE resolvedTitle

\* ChapterFixes.determineTitleChange: the new title, UNDEFINED for no change
determineTitleChange(currentTitle, resolvedTitle) ==
    LET normalizedCurrent == IF currentTitle = "" \/ currentTitle = UNDEFINED THEN NULL
                             ELSE currentTitle
        normalizedResolved == IF resolvedTitle = "" THEN NULL ELSE resolvedTitle
    IN IF normalizedCurrent # normalizedResolved THEN normalizedResolved ELSE UNDEFINED

\* ReleaseLookup.getAllGroupIdsForRelease
getAllGroupIdsForRelease(rows, release, scanGroups) ==
    LET allGroupsInRelease == ObjectKeys(release.groupTitles)
        Mapped(csvToApiGroupMap) ==
            LET IdOf(name) ==
                    IF \E k \in 1..Len(csvToApiGroupMap) : csvToApiGroupMap[k].name = name
                    THEN csvToApiGroupMap[CHOOSE k \in 1..Len(csvToApiGroupMap) :
                                              csvToApiGroupMap[k].name = name].id
                    ELSE UNDEFINED
                ids == [k \in 1..Len(allGroupsInRelease) |-> IdOf(allGroupsInRelease[k])]
            IN SeqFilter(ids, {x \in Range(ids) : Truthy(x)})
    IN Mapped(mapCsvGroupsToApiGroups(getAllGroups(rows), scanGroups))

\* getAdditionalGroupsFromRelease returning every group ID of the release,
\* those the chapter already carries too
getAdditionalGroupsFromRelease_Unfiltered(currentGroupIds, rows, release, scanGroups, matchedGroupName) ==
    IF ~Truthy(matchedGroupName) THEN <<>>
    ELSE IF Len(ObjectKeys(release.groupTitles)) > 1
         THEN getAllGroupIdsForRelease(rows, release, scanGroups)
         ELSE <<>>

\* ChapterFixes.getAdditionalGroupsFromRelease
getAdditionalGroupsFromRelease(currentGroupIds, rows, release, scanGroups, matchedGroupName) ==
    IF ~Truthy(matchedGroupName) THEN <<>>
    ELSE IF Len(ObjectKeys(release.groupTitles)) > 1
         THEN LET Missing(allGroupIds) ==
                      SeqFilter(allGroupIds, Range(allGroupIds) \ Range(currentGroupIds))
              IN Missing(getAllGroupIdsForRelease(rows, release, scanGroups))
         ELSE <<>>


\* ChapterFixes.calculateChangesFromRelease: the ChapterChanges, the
\* chapterRelease with its title and matched group filled in, and whether
\* the series' groups were fetched (getAllGroupIdsForRelease)
calculateChangesFromRelease(chapter, chapterRelease, scanGroups, rows, groupNames, chapterIsNoGroup) ==
    LET release == chapterRelease.release
        volumeChange == determineVolumeChange(chapter.chapterVolume, chapterRelease.volume)
        AfterPreliminary(preliminaryTitleResult) ==
            LET matched == preliminaryTitleResult # None
                           /\ Truthy(preliminaryTitleResult[1].matchedGroupName)
                AfterGroups(additionalGroupIds) ==
                    LET updatedGroupNames ==
                            GroupNamesOf(scanGroups, chapter.groupIds \o additionalGroupIds)
                        finalGroupNames == IF Len(updatedGroupNames) > 0
                                           THEN updatedGroupNames ELSE groupNames
                        AfterTitle(titleResult) ==
                            LET resolvedTitle == IF titleResult = None THEN NULL
                                                 ELSE NormalizeTitle(titleResult[1].title)
                            IN [changes |->
                                    [volume |-> volumeChange,
                                     title |-> determineTitleChange(
                                                   NormalizeTitle(chapter.currentTitle),
                                                   resolvedTitle),
                                     additionalGroupIds |-> additionalGroupIds],
                                chapterRelease |->
                                    [chapterRelease EXCEPT
                                        !.title = resolvedTitle,
                                        !.matchedGroupName =
                                            IF titleResult = None THEN NULL
                                            ELSE titleResult[1].matchedGroupName],
                                calls |-> IF matched /\ Len(ObjectKeys(release.groupTitles)) > 1
                                          THEN <<"getAllGroups">> ELSE <<>>]
                    IN AfterTitle(resolveTitleFromRelease(release, finalGroupNames,
                                                          chapterIsNoGroup))
            IN AfterGroups(IF matched
                           THEN getAdditionalGroupsFromRelease(
                                    chapter.groupIds, rows, release, scanGroups,
                                    preliminaryTitleResult[1].matchedGroupName)
                           ELSE <<>>)
    IN AfterPreliminary(resolveTitleFromRelease(release, groupNames, chapterIsNoGroup))

\* a failed result carrying no warning
FailedResult_NoWarning(reason, note) ==
    [status |-> ChangeStatus.FAILED,
     changes |-> None,
     warnings |-> <<>>,
     resolutionResult |-> None]

FailedResult(reason, note) ==
    [status |-> ChangeStatus.FAILED,
     changes |-> None,
     warnings |-> <<[reason |-> reason, note |-> <<note>>]>>,
     resolutionResult |-> None]

\* the warnings of a chapter whose release was found
WarningsFor(originalVolume, resolutionResult) ==
    (IF resolutionResult.usedFallback /\ resolutionResult.fallbackVolume # NULL
     THEN <<[reason |-> WarningReason.VOLUME_MISMATCH,
             note |-> <<"Changed volume from", IF originalVolume = NULL THEN "N/A"
                                               ELSE originalVolume,
                        "to", IF resolutionResult.fallbackVolume \in {"", NULL} THEN "N/A"
                              ELSE resolutionResult.fallbackVolume>>]>>
     ELSE <<>>)
    \o
    (IF Truthy(resolutionResult.matchedGroupName)
        /\ Len(ObjectKeys(resolutionResult.chapterInfo.groupTitles)) > 1
     THEN <<[reason |-> WarningReason.PARTIAL_GROUP_MATCH,
             note |-> <<"Matched", resolutionResult.matchedGroupName, "but release has">>
                      \o ObjectKeys(resolutionResult.chapterInfo.groupTitles)]>>
     ELSE <<>>)

\* hasChanges leaving the additional groups out
StatusOf_GroupsIgnored(changes) ==
    IF changes.volume # UNDEFINED \/ changes.title # UNDEFINED
    THEN ChangeStatus.SUCCESS
    ELSE ChangeStatus.NO_CHANGES

\* hasChanges ? SUCCESS : NO_CHANGES
StatusOf(changes) ==
    IF \/ changes.volume # UNDEFINED
       \/ changes.title # UNDEFINED
       \/ Len(changes.additionalGroupIds) > 0
    THEN ChangeStatus.SUCCESS
    ELSE ChangeStatus.NO_CHANGES

\* the group precondition skipping the check for unassigned groups
GroupPrecondition_NoGroupsUnchecked(assignedGroupIds, assignedGroupNames, chapterIsNoGroup) ==
    IF Len(assignedGroupNames) = 0 /\ ~chapterIsNoGroup
    THEN Some(FailedResult(WarningReason.NO_VALID_GROUPS,
                           "No valid groups found for assigned group IDs"))
    ELSE None

\* The two group checks that open the loop body: Some(failed result) when the
\* chapter is rejected before any lookup, None when it goes on.
GroupPrecondition(assignedGroupIds, assignedGroupNames, chapterIsNoGroup) ==
    IF Len(assignedGroupIds) = 0 /\ ~chapterIsNoGroup
    THEN Some(FailedResult(WarningReason.NO_GROUPS,
                           "Unable to assign any of the required groups to the chapter"))
    ELSE IF Len(assignedGroupNames) = 0 /\ ~chapterIsNoGroup
    THEN Some(FailedResult(WarningReason.NO_VALID_GROUPS,
                           "No valid groups found for assigned group IDs"))
    ELSE None

\* One iteration of the loop of Coordination.applyChangesFromDump: the result
\* pushed for the chapter and the resolver calls made for it.
ProcessChapter(chapter, scanGroups, rows, opts) ==
    LET chapterIsNoGroup == isNoGroupChapter(chapter)
        assignedGroupIds == chapter.groupIds
        assignedGroupNames == GroupNamesOf(scanGroups, assignedGroupIds)
        rejected == GroupPrecondition(assignedGroupIds, assignedGroupNames, chapterIsNoGroup)
        Found(lookupCalls, calc) ==
            LET chapterRelease == calc.chapterRelease
                resolutionResult ==
                    [title |-> NormalizeTitle(chapterRelease.title),
                     matchedGroupName |-> chapterRelease.matchedGroupName,
                     usedFallback |-> chapterRelease.usedFallback,
                     fallbackVolume |-> IF chapterRelease.usedFallback
                                        THEN chapterRelease.volume ELSE NULL,
                     chapterInfo |-> chapterRelease.release]
            IN [calls |-> lookupCalls \o calc.calls,
                result |-> [status |-> StatusOf(calc.changes),
                            changes |-> Some(calc.changes),
                            warnings |-> WarningsFor(chapter.chapterVolume, resolutionResult),
                            resolutionResult |-> Some(resolutionResult)]]
        AfterLookup(looked) ==
            IF looked.chapterRelease = None
            THEN [calls |-> looked.calls,
                  result |-> FailedResult(WarningReason.NO_CHAPTER_INFO,
                                 "Chapter not found in chapter dump")]
            ELSE Found(looked.calls,
                       calculateChangesFromRelease(chapter, looked.chapterRelease[1],
                           scanGroups, rows, assignedGroupNames, chapterIsNoGroup))
    IN IF rejected # None
       THEN [calls |-> <<>>, result |-> rejected[1]]
       ELSE AfterLookup(lookupChapterRelease(chapter, rows, assignedGroupNames,
                                             opts.useFallbackMatching))

\* The caller's write-back of one result (applyTitlesToChapters): volume and
\* title when staged, the additional group ids added to the chapter's groups.
ApplyChangesToChapter(chapter, chapterResult) ==
    IF chapterResult.status \in {ChangeStatus.SUCCESS, ChangeStatus.NO_CHANGES}
       /\ chapterResult.changes # None
    THEN LET ch == chapterResult.changes[1]
         IN [chapter EXCEPT
                !.chapterVolume = IF ch.volume # UNDEFINED THEN ch.volume ELSE @,
                !.currentTitle = IF ch.title # UNDEFINED THEN ch.title ELSE @,
                !.groupIds = IF Len(ch.additionalGroupIds) > 0
                             THEN Dedup(@ \o ch.additionalGroupIds) ELSE @]
    ELSE chapter


\* ------------------------------------------------------ the inputs drawn
Foo == [primaryName |-> "Foo", altNames |-> <<"F">>]
Bar == [primaryName |-> "Bar", altNames |-> <<>>]

Row(volume, chapter, language, groups, title) ==
    [volume |-> volume, chapter |-> chapter, title |-> title, groups |-> groups,
     language |-> language]

\* rows a chapter_dump.csv of the series may hold (ChapterInfo after parseCSV)
RowPool ==
    << Row("1", "5", "en", <<Foo>>, "Hello"),
       Row("1", "5", "en", <<Foo, Bar>>, "Hello"),
       Row("1", "5", "en", <<>>, "Hello"),
       Row("", "5", "en", <<Foo>>, ""),
       Row("1", "5", "en", <<Bar>>, "Bye"),
       Row("1", "5", "fr", <<Foo>>, "Salut"),
       Row("1", "", "en", <<Foo>>, "Hello"),
       Row("", "5", "en", <<>>, "") >>

RECURSIVE Ascending(_)
Ascending(S) ==
    IF S = {} THEN <<>>
    ELSE LET m == CHOOSE x \in S : \A y \in S : x <= y
         IN <<m>> \o Ascending(S \ {m})

Reverse(s) == [k \in 1..Len(s) |-> s[Len(s) + 1 - k]]

\* the datasets: at most MaxEntries distinct rows of the pool, in pool order or
\* in the opposite order (every ordered pair of distinct rows occurs)
Datasets ==
    LET picks == {S \in SUBSET (1..Len(RowPool)) : Cardinality(S) <= MaxEntries}
        orders == {Ascending(S) : S \in picks} \cup {Reverse(Ascending(S)) : S \in picks}
    IN {[k \in 1..Len(idx) |-> RowPool[idx[k]]] : idx \in orders}

ScanGroup(groupId, groupName) == [groupId |-> groupId, groupName |-> groupName]

\* the remote catalogs: both groups under their primary names; Foo under its
\* alternative name only, g2 unknown to the catalog
Catalogs ==
    { <<ScanGroup("g1", "Foo"), ScanGroup("g2", "Bar")>>,
      <<ScanGroup("g1", "F")>> }

ChapterInput(volume, number, path, groupIds, title, language) ==
    [chapterVolume |-> volume, chapterNumber |-> number, originalFolderPath |-> path,
     groupIds |-> groupIds, currentTitle |-> title, language |-> language]

ChapterInputs ==
    { ChapterInput(v, "5", p, g, t, "en") :
        v \in {NULL, "", "1", "2"},
        p \in {PathNoGroup, PathWithGroup},
        g \in {<<>>, <<"g1">>, <<"g2">>, <<"g1", "g2">>},
        t \in {NULL, "", "Hello"} }
    \cup
    { ChapterInput("1", NULL, PathWithGroup, <<"g1">>, NULL, "en"),
      ChapterInput("2", "5", PathWithGroup, <<"g1">>, NULL, "fr") }

\* the chapters that precede the drawn one in a batch
Companions ==
    << ChapterInput("1", "5", PathWithGroup, <<"g1">>, NULL, "en"),
       ChapterInput("2", "5", PathWithGroup, <<>>, NULL, "en"),
       ChapterInput(NULL, "5", PathNoGroup, <<>>, "Hello", "en") >>

\* the batches: 1..MaxBatch chapters, the last one drawn from ChapterInputs
Batches ==
    { [k \in 1..n |-> IF k = n THEN c ELSE Companions[((k - 1) % Len(Companions)) + 1]] :
        n \in 1..MaxBatch, c \in ChapterInputs }

\* the sleep of a call that has not returned yet
Pending == -1

\* a caller that is not inside wait()
Outside == [pc |-> "outside", now |-> 0, wakeAt |-> 0, call |-> 0]

\* the rate limiter left alone: no bucket is used by the engine
LimiterUnused ==
    /\ clock = 0
    /\ rateLimit = 1
    /\ rateLimitInterval = 1
    /\ lastBucketStart = 0
    /\ requestCount = 0
    /\ callers = [p \in 1..MaxCallers |-> Outside]
    /\ admitted = 0
    /\ history = <<>>

\* no request is in flight
ChainUnused ==
    /\ limiters = <<>>
    /\ method = <<>>
    /\ executePc = "returned"
    /\ waitIndex = 0
    /\ waited = <<>>
    /\ attempts = 0
    /\ lastError = <<>>

\* no uploader is constructed
UploaderUnused ==
    /\ uploaderChapters = <<>>
    /\ authToken = NULL
    /\ uploaderStatus = "NOT_STARTED"
    /\ uploaderProgress = [num |-> 0, den |-> 1]
    /\ uploaderError = NULL
    /\ currentChapterIndex = -1
    /\ uploadAllPc = "returned"
    /\ chaptersToUpload = <<>>
    /\ attempt = 0
    /\ delay = 0
    /\ chaptersAtStart = <<>>
    /\ uploadCalls = <<>>
    /\ causes = <<>>
    /\ delaysSlept = <<>>
    /\ cleanup = "pending"
    /\ apiCalls = <<>>
    /\ uploadsInFlight = 0

\* the engine left alone: no batch is processed
EditorUnused ==
    /\ seriesId = NULL
    /\ chapterStates = <<>>
    /\ aggregate = {}
    /\ chapterWarnings = <<>>
    /\ processingStep = "LOADING"
    /\ dumpLookupFailed = FALSE
    /\ dumpLookupFailedGroups = 0
    /\ lastProcessedSeriesId = NULL
    /\ automationActive = FALSE
    /\ zipStatus = "PENDING"
    /\ editorPc = "unused"
    /\ duplicatesChecked = "no"
    /\ pipelineTrace = <<>>
    /\ uploadStarted = <<>>

ResolverUnused ==
    /\ csv = <<>>
    /\ resolverData = <<>>
    /\ loadPromise = "none"
    /\ fetches = 0
    /\ queryCallers = <<>>

EngineUnused ==
    /\ data = <<>>
    /\ availableScanGroups = <<>>
    /\ options = [useFallbackMatching |-> FALSE]
    /\ chapters = <<>>
    /\ i = 0
    /\ results = <<>>
    /\ successCount = 0
    /\ failedCount = 0
    /\ calls = <<>>
    /\ round = 1
    /\ firstChapters = <<>>
    /\ firstResults = <<>>

\* the orchestrator left alone: it is never mounted
OrchestratorUnused ==
    /\ orchestratorStep = "LOADING"
    /\ automationIsActive = FALSE
    /\ uploadTimer = "none"
    /\ isUploading = FALSE
    /\ chapterUploaders = <<>>
    /\ orchestratorChapters = <<>>

\* the chapter editor's state left alone: no chapter is loaded
ChapterEditorUnused == editableChapter = NULL

\* ------------------------------------------------------- the state machine
Init ==
    /\ data \in Datasets
    /\ availableScanGroups \in Catalogs
    /\ options \in [useFallbackMatching : BOOLEAN]
    /\ chapters \in Batches
    /\ i = 0
    /\ results = <<>>
    /\ successCount = 0
    /\ failedCount = 0
    /\ calls = <<>>
    /\ round = 1
    /\ firstChapters = <<>>
    /\ firstResults = <<>>
    /\ LimiterUnused
    /\ ChainUnused
    /\ UploaderUnused
    /\ EditorUnused
    /\ ResolverUnused
    /\ OrchestratorUnused
    /\ ChapterEditorUnused

\* the loop counting every chapter as a success, failed ones too
LoopIteration_CountsAll ==
    /\ i < Len(chapters)
    /\ \E p \in {ProcessChapter(chapters[i + 1], availableScanGroups, data, options)} :
          /\ results' = Append(results, p.result)
          /\ calls' = Append(calls, p.calls)
          /\ successCount' = successCount + 1
          /\ failedCount' = IF p.result.status = ChangeStatus.FAILED
                            THEN failedCount + 1 ELSE failedCount
    /\ i' = i + 1
    /\ UNCHANGED <<data, availableScanGroups, options, chapters, round,
                   firstChapters, firstResults>>
    /\ UNCHANGED <<limiterVars, chainVars, uploaderVars, editorVars, resolverVars, orchestratorVars, chapterEditorVars>>

\* the loop with one warnings array for the whole batch, declared before the
\* loop instead of inside it
LoopIteration_SharedWarnings ==
    /\ i < Len(chapters)
    /\ \E p \in {ProcessChapter(chapters[i + 1], availableScanGroups, data, options)} :
          /\ results' = Append(results,
                               [p.result EXCEPT
                                   !.warnings = IF p.result.status = ChangeStatus.FAILED
                                                   \/ results = <<>>
                                                THEN @
                                                ELSE results[Len(results)].warnings \o @])
          /\ calls' = Append(calls, p.calls)
          /\ IF p.result.status = ChangeStatus.FAILED
             THEN failedCount' = failedCount + 1 /\ successCount' = successCount
             ELSE successCount' = successCount + 1 /\ failedCount' = failedCount
    /\ i' = i + 1
    /\ UNCHANGED <<data, availableScanGroups, options, chapters, round,
                   firstChapters, firstResults>>
    /\ UNCHANGED <<limiterVars, chainVars, uploaderVars, editorVars, resolverVars, orchestratorVars, chapterEditorVars>>

\* applyChangesFromDump, one iteration of its loop over the batch
LoopIteration ==
    /\ i < Len(chapters)
    /\ \E p \in {ProcessChapter(chapters[i + 1], availableScanGroups, data, options)} :
          /\ results' = Append(results, p.result)
          /\ calls' = Append(calls, p.calls)
          /\ IF p.result.status = ChangeStatus.FAILED
             THEN failedCount' = failedCount + 1 /\ successCount' = successCount
             ELSE successCount' = successCount + 1 /\ failedCount' = failedCount
    /\ i' = i + 1
    /\ UNCHANGED <<data, availableScanGroups, options, chapters, round,
                   firstChapters, firstResults>>
    /\ UNCHANGED <<limiterVars, chainVars, uploaderVars, editorVars, resolverVars, orchestratorVars, chapterEditorVars>>

\* the caller writes the staged changes back to its chapters and calls
\* applyChangesFromDump again on them (same dataset, catalog and options)
WriteBackAndRerun ==
    /\ round = 1
    /\ i = Len(chapters)
    /\ firstChapters' = chapters
    /\ firstResults' = results
    /\ chapters' = [k \in 1..Len(chapters) |-> ApplyChangesToChapter(chapters[k], results[k])]
    /\ i' = 0
    /\ results' = <<>>
    /\ successCount' = 0
    /\ failedCount' = 0
    /\ calls' = <<>>
    /\ round' = 2
    /\ UNCHANGED <<data, availableScanGroups, options>>
    /\ UNCHANGED <<limiterVars, chainVars, uploaderVars, editorVars, resolverVars, orchestratorVars, chapterEditorVars>>

Next == LoopIteration \/ WriteBackAndRerun

Spec == Init /\ [][Next]_vars


\* ------------------------------------------------- vocabulary of the claims
HasWarning(r, reason) == \E w \in Range(r.warnings) : w.reason = reason
ReasonsOf(r) == [w \in 1..Len(r.warnings) |-> r.warnings[w].reason]
NotFailed(r) == r.status \in {ChangeStatus.SUCCESS, ChangeStatus.NO_CHANGES}
NamesOfChapter(c) == GroupNamesOf(availableScanGroups, c.groupIds)
VolumeStaged(r) == r.changes # None /\ r.changes[1].volume # UNDEFINED
TitleStaged(r) == r.changes # None /\ r.changes[1].title # UNDEFINED
UsedFallback(r) == r.resolutionResult # None /\ r.resolutionResult[1].usedFallback
\* null and '' are the same title
SameTitle(a, b) == (IF a = "" THEN NULL ELSE a) = (IF b = "" THEN NULL ELSE b)

\* the dataset holds a row with the chapter's exact volume, chapter and
\* language whose groups carry one of the chapter's group names (an ungrouped
\* row for a chapter without group names)
HasExactEntry(c) ==
    \E r \in Range(data) :
        /\ r.volume = OrEmpty(c.chapterVolume)
        /\ r.chapter = OrEmpty(c.chapterNumber)
        /\ r.language = c.language
        /\ IF NamesOfChapter(c) = <<>> THEN r.groups = <<>>
           ELSE \E g \in Range(r.groups) :
                    Range(NamesOfChapter(c)) \cap ({g.primaryName} \cup Range(g.altNames)) # {}

\* the groups of the matched release that one of the chapter's names denotes
GroupsCarried(c, r) ==
    {g \in Range(r.resolutionResult[1].chapterInfo.groups) :
        Range(NamesOfChapter(c)) \cap ({g.primaryName} \cup Range(g.altNames)) # {}}

\* -------------------------------------------------------------- the claims

\* C1: running the engine again on chapters to which its own changes were
\* applied returns NO_CHANGES with no warnings, for every chapter whose first
\* result was SUCCESS or NO_CHANGES.
C1_RerunIsClean ==
    round = 2 =>
        \A k \in 1..Len(results) :
            NotFailed(firstResults[k]) =>
                /\ results[k].status = ChangeStatus.NO_CHANGES
                /\ results[k].warnings = <<>>

\* C2: a chapter whose release was matched but for which neither a group name
\* nor an ungrouped title resolves is FAILED with NO_CHAPTER_INFO and stages
\* no change.
C2_UnresolvedTitleFails ==
    \A k \in 1..Len(results) :
        LET c == chapters[k]
            names == NamesOfChapter(c)
            looked == lookupChapterRelease(c, data, names, options.useFallbackMatching)
        IN (/\ GroupPrecondition(c.groupIds, names, isNoGroupChapter(c)) = None
            /\ looked.chapterRelease # None
            /\ resolveTitleFromRelease(looked.chapterRelease[1].release, names,
                                       isNoGroupChapter(c)) = None)
           => /\ results[k].status = ChangeStatus.FAILED
              /\ ReasonsOf(results[k]) = <<WarningReason.NO_CHAPTER_INFO>>
              /\ results[k].changes = None

\* C3: a chapter whose exact (volume, chapter, language, groups) tuple has a
\* dataset row never reaches the fallback lookup and gets no VOLUME_MISMATCH
\* warning, whatever useFallbackMatching is.
C3_ExactNeverFallsBack ==
    \A k \in 1..Len(results) :
        HasExactEntry(chapters[k]) =>
            /\ "fallback" \notin Range(calls[k])
            /\ ~HasWarning(results[k], WarningReason.VOLUME_MISMATCH)

C3_Witness ==
    \E k \in 1..Len(results) :
        /\ HasExactEntry(chapters[k])
        /\ options.useFallbackMatching
        /\ "exact" \in Range(calls[k])
        /\ NotFailed(results[k])

\* C4: changes.volume is staged exactly when the fallback was used
\* and its volume differs from the chapter's, VOLUME_MISMATCH is emitted in
\* exactly that case, and an exact match never stages a volume.
C4_VolumeOnlyByFallback ==
    \A k \in 1..Len(results) :
        LET r == results[k]
            differs == UsedFallback(r)
                       /\ r.resolutionResult[1].fallbackVolume # chapters[k].chapterVolume
        IN /\ VolumeStaged(r) <=> differs
           /\ HasWarning(r, WarningReason.VOLUME_MISMATCH) <=> differs
           /\ ~UsedFallback(r) => ~VolumeStaged(r)

\* C5: a chapter with no group ids that is not a no-group chapter is FAILED
\* with the single reason NO_GROUPS and no resolver lookup is made for it.
C5_NoGroupsFails ==
    \A k \in 1..Len(results) :
        (chapters[k].groupIds = <<>> /\ ~isNoGroupChapter(chapters[k])) =>
            /\ results[k].status = ChangeStatus.FAILED
            /\ ReasonsOf(results[k]) = <<WarningReason.NO_GROUPS>>
            /\ results[k].changes = None
            /\ calls[k] = <<>>

C5_Witness ==
    \E k \in 1..Len(results) :
        /\ chapters[k].groupIds = <<>>
        /\ ~isNoGroupChapter(chapters[k])
        /\ results[k].status = ChangeStatus.FAILED
        /\ \E r \in Range(data) :
               /\ r.volume = OrEmpty(chapters[k].chapterVolume)
               /\ r.chapter = OrEmpty(chapters[k].chapterNumber)
               /\ r.language = chapters[k].language
               /\ r.groups = <<>>

\* C6: a title is staged only if the resolved title differs from the current
\* one, null and '' counting as the same title, and a staged title is never ''.
C6_TitleEquivalence ==
    \A k \in 1..Len(results) :
        TitleStaged(results[k]) =>
            /\ ~SameTitle(results[k].resolutionResult[1].title, chapters[k].currentTitle)
            /\ results[k].changes[1].title # ""

C6_Witness ==
    \E k \in 1..Len(results) :
        /\ chapters[k].currentTitle = ""
        /\ NotFailed(results[k])
        /\ results[k].resolutionResult[1].title = NULL
        /\ ~TitleStaged(results[k])

\* the chapter of the scenario of C7, at position k of the first run
C7_Scenario(k) ==
    /\ round = 1
    /\ data = <<Row("1", "5", "en", <<Foo>>, "Hello")>>
    /\ GroupIdToName(availableScanGroups, "g1") = "Foo"
    /\ options.useFallbackMatching
    /\ chapters[k].chapterVolume = "2"
    /\ chapters[k].chapterNumber = "5"
    /\ chapters[k].groupIds = <<"g1">>
    /\ chapters[k].language = "en"
    /\ chapters[k].currentTitle = NULL

\* C7: in the scenario the result is SUCCESS with volume "1", title "Hello"
\* and no additional groups staged, and exactly one warning, VOLUME_MISMATCH.
C7_ScenarioResult ==
    \A k \in 1..Len(results) :
        C7_Scenario(k) =>
            /\ results[k].status = ChangeStatus.SUCCESS
            /\ results[k].changes =
                   Some([volume |-> "1", title |-> "Hello", additionalGroupIds |-> <<>>])
            /\ ReasonsOf(results[k]) = <<WarningReason.VOLUME_MISMATCH>>

C7_Witness == \E k \in 1..Len(results) : C7_Scenario(k)

\* C8: PARTIAL_GROUP_MATCH is emitted only when the matched release has more
\* than one group and the chapter's groups denote only one of them; a chapter
\* carrying every group of the release gets no such warning.
C8_PartialOnlyWhenPartial ==
    \A k \in 1..Len(results) :
        HasWarning(results[k], WarningReason.PARTIAL_GROUP_MATCH) =>
            /\ Len(results[k].resolutionResult[1].chapterInfo.groups) > 1
            /\ Cardinality(GroupsCarried(chapters[k], results[k])) = 1

\* C9: one result per chapter at the chapter's index, and the two counters
\* add up: failedCount counts the FAILED results, successCount the others.
C9_OneResultPerChapter ==
    /\ Len(results) = i
    /\ i <= Len(chapters)
    /\ \A k \in 1..Len(results) :
           results[k] = ProcessChapter(chapters[k], availableScanGroups, data, options).result
    /\ failedCount = Cardinality({k \in 1..Len(results) :
                                      results[k].status = ChangeStatus.FAILED})
    /\ successCount = Cardinality({k \in 1..Len(results) : NotFailed(results[k])})
    /\ successCount + failedCount = i

C9_Witness ==
    /\ i = Len(chapters)
    /\ Len(chapters) > 1
    /\ failedCount > 0
    /\ successCount > 0

\* C10: a result that is not FAILED is SUCCESS exactly when a volume or a
\* title is staged or additional groups are, and NO_CHANGES otherwise.
C10_StatusReflectsChanges ==
    \A k \in 1..Len(results) :
        NotFailed(results[k]) =>
            LET ch == results[k].changes[1]
                changed == \/ ch.volume # UNDEFINED
                           \/ ch.title # UNDEFINED
                           \/ ch.additionalGroupIds # <<>>
            IN /\ changed => results[k].status = ChangeStatus.SUCCESS
               /\ ~changed => results[k].status = ChangeStatus.NO_CHANGES

C10_Witness ==
    \E k \in 1..Len(results) :
        /\ results[k].status = ChangeStatus.SUCCESS
        /\ ~VolumeStaged(results[k])
        /\ ~TitleStaged(results[k])
        /\ results[k].changes[1].additionalGroupIds # <<>>

\* the additional group IDs staged by a result that carries changes
AdditionalOf(r) == r.changes[1].additionalGroupIds

\* C32: additionalGroupIds holds only catalog IDs of groups of the matched
\* release, never an ID the chapter already carries, and is empty when the
\* release has at most one group or none of the chapter's group names denotes a
\* group of the release.
C32_AdditionalGroupsFromRelease ==
    \A k \in 1..Len(results) :
        results[k].changes # None =>
            LET release == results[k].resolutionResult[1].chapterInfo
            IN /\ \A id \in Range(AdditionalOf(results[k])) :
                      /\ \E g \in Range(release.groups) :
                             \E a \in Range(availableScanGroups) :
                                 a.groupId = id /\ groupMatches(g, a.groupName)
                      /\ id \notin Range(chapters[k].groupIds)
               /\ Cardinality({g.primaryName : g \in Range(release.groups)}) <= 1 =>
                      AdditionalOf(results[k]) = <<>>
               /\ GroupsCarried(chapters[k], results[k]) = {} =>
                      AdditionalOf(results[k]) = <<>>

\* a chapter carrying one of the two catalogued groups of its release is
\* staged the other one
C32_Witness ==
    \E k \in 1..Len(results) :
        /\ results[k].changes # None
        /\ chapters[k].groupIds = <<"g1">>
        /\ Len(results[k].resolutionResult[1].chapterInfo.groups) = 2
        /\ AdditionalOf(results[k]) = <<"g2">>

\* the number of warnings of a result that carry the reason
CountOf(r, reason) == Cardinality({w \in 1..Len(r.warnings) : r.warnings[w].reason = reason})

C36_PureAndIndependent ==
    [][i' = i + 1 =>
          /\ chapters' = chapters
          /\ availableScanGroups' = availableScanGroups
          /\ data' = data
          /\ results'[i'] = ProcessChapter(chapters[i'], availableScanGroups, data, options).result
          /\ \A j \in 1..i' : chapters[j] = chapters[i'] => results'[j] = results'[i']]_vars

\* a batch of two equal chapters, the first resolved with a warning
C36_Witness ==
    /\ i = 2
    /\ chapters[1] = chapters[2]
    /\ Len(results[1].warnings) > 0
    /\ results[2] = results[1]


\* ------------------------------------------------------------ Rate limiter
\* timeSinceLastBucketStart > this.rateLimitInterval
NewBucketStarted(now, bucketStart, interval) == now - bucketStart > interval

\* this.requestCount >= this.rateLimit with the comparison strict
RateLimitExceeded_Strict(count, limit) == count > limit

\* this.requestCount >= this.rateLimit
RateLimitExceeded(count, limit) == count >= limit

\* the latest time at which a call has returned so far, Pending when none has
LatestReturn ==
    LET times == {history[k].returned : k \in 1..Len(history)} \ {Pending}
    IN IF times = {} THEN Pending ELSE CHOOSE t \in times : \A u \in times : u <= t

\* the record of a call: the clock it read, the bucket as it found it, whether
\* it slept and when it returned
CallRecord(p, now, slept, returned) ==
    [caller |-> p, now |-> now, bucketStart |-> lastBucketStart,
     admittedBefore |-> admitted, seen |-> LatestReturn,
     alone |-> \A q \in 1..MaxCallers : callers[q].pc = "outside",
     slept |-> slept, returned |-> returned,
     windowStart |-> IF returned = Pending THEN Pending
                     ELSE IF NewBucketStarted(now, lastBucketStart, rateLimitInterval)
                          THEN now ELSE lastBucketStart,
     count |-> IF returned = Pending THEN Pending
               ELSE IF NewBucketStarted(now, lastBucketStart, rateLimitInterval)
                    THEN 1 ELSE requestCount + 1]

\* a new ApiWithRateLimit(rateLimit, rateLimitIntervalSeconds), nobody calling
LimiterInit ==
    /\ clock = 0
    /\ rateLimit \in 1..MaxRateLimit
    /\ rateLimitInterval \in 1..MaxIntervalMs
    /\ lastBucketStart = clock
    /\ requestCount = 0
    /\ callers = [p \in 1..MaxCallers |-> Outside]
    /\ admitted = 0
    /\ history = <<>>
    /\ EngineUnused
    /\ ChainUnused
    /\ UploaderUnused
    /\ EditorUnused
    /\ ResolverUnused
    /\ OrchestratorUnused
    /\ ChapterEditorUnused

\* wait() from its first line to its return or to its suspension at the sleep
WaitCall(p) ==
    /\ callers[p].pc = "outside"
    /\ Len(history) < MaxCalls
    /\ LET now == clock
       IN IF NewBucketStarted(now, lastBucketStart, rateLimitInterval)
          THEN /\ lastBucketStart' = now
               /\ requestCount' = 1
               /\ admitted' = 1
               /\ history' = Append(history, CallRecord(p, now, FALSE, clock))
               /\ UNCHANGED callers
          ELSE IF RateLimitExceeded(requestCount, rateLimit)
          THEN /\ callers' = [callers EXCEPT ![p] =
                                  [pc |-> "sleeping", now |-> now,
                                   wakeAt |-> clock + ((lastBucketStart + rateLimitInterval) - now),
                                   call |-> Len(history) + 1]]
               /\ history' = Append(history, CallRecord(p, now, TRUE, Pending))
               /\ UNCHANGED <<lastBucketStart, requestCount, admitted>>
          ELSE /\ requestCount' = requestCount + 1
               /\ admitted' = admitted + 1
               /\ history' = Append(history, CallRecord(p, now, FALSE, clock))
               /\ UNCHANGED <<lastBucketStart, callers>>
    /\ UNCHANGED <<clock, rateLimit, rateLimitInterval>>
    /\ UNCHANGED <<engineVars, chainVars, uploaderVars, editorVars, resolverVars, orchestratorVars, chapterEditorVars>>

\* wait() from the end of its sleep to its return
WakeUp(p) ==
    /\ callers[p].pc = "sleeping"
    /\ clock >= callers[p].wakeAt
    /\ lastBucketStart' = callers[p].now
    /\ requestCount' = 1
    /\ admitted' = 1
    /\ history' = [history EXCEPT ![callers[p].call].returned = clock,
                                  ![callers[p].call].windowStart = callers[p].now,
                                  ![callers[p].call].count = 1]
    /\ callers' = [callers EXCEPT ![p] = Outside]
    /\ UNCHANGED <<clock, rateLimit, rateLimitInterval>>
    /\ UNCHANGED <<engineVars, chainVars, uploaderVars, editorVars, resolverVars, orchestratorVars, chapterEditorVars>>

\* a millisecond passes
Tick ==
    /\ clock < MaxClock
    /\ clock' = clock + 1
    /\ UNCHANGED <<rateLimit, rateLimitInterval, lastBucketStart, requestCount,
                   callers, admitted, history>>
    /\ UNCHANGED <<engineVars, chainVars, uploaderVars, editorVars, resolverVars, orchestratorVars, chapterEditorVars>>

LimiterNext ==
    \/ \E p \in 1..MaxCallers : WaitCall(p)
    \/ \E p \in 1..MaxCallers : WakeUp(p)
    \/ Tick

SpecLimiter == LimiterInit /\ [][LimiterNext]_vars

\* ------------------------------------------- the claims on the rate limiter
Returned(k) == history[k].returned # Pending

\* C11: of the calls made less than the interval after the start of their
\* window, those that find fewer than rateLimit calls admitted in it return
\* without sleeping, and the one that finds rateLimit calls admitted sleeps
\* and does not return before the window's start plus the interval.
C11_BurstThenBlock ==
    \A k \in 1..Len(history) :
        LET c == history[k]
        IN (c.now - c.bucketStart < rateLimitInterval) =>
               /\ c.admittedBefore < rateLimit => ~c.slept /\ c.returned = c.now
               /\ c.admittedBefore = rateLimit =>
                      /\ c.slept
                      /\ Returned(k) => c.returned >= c.bucketStart + rateLimitInterval
               /\ c.admittedBefore <= rateLimit

C11_Witness ==
    /\ rateLimit > 1
    /\ Len(history) > rateLimit
    /\ \A k \in 1..rateLimit : history[k].bucketStart = 0 /\ ~history[k].slept
    /\ history[rateLimit + 1].bucketStart = 0
    /\ history[rateLimit + 1].now < rateLimitInterval
    /\ history[rateLimit + 1].slept
    /\ Returned(rateLimit + 1)

\* every call read a clock later than every return that preceded it
ClockMovedOn == \A k \in 1..Len(history) : history[k].now > history[k].seen

\* the calls that returned within the bucket's current window
ReturnedInWindow ==
    {k \in 1..Len(history) :
        /\ Returned(k)
        /\ history[k].returned >= lastBucketStart
        /\ history[k].returned <= lastBucketStart + rateLimitInterval}

\* C12: whatever the interleaving of the callers, no more than rateLimit
\* calls return within one window, and requestCount is the number of calls
\* admitted since lastBucketStart was set.
C12_FixedWindowUnderInterleaving ==
    ClockMovedOn =>
        /\ Cardinality(ReturnedInWindow) <= rateLimit
        /\ requestCount = admitted

\* C30: a call that slept leaves, on its return, a window that starts when
\* it resumed, not earlier than the start of the window it found plus the
\* interval, with requestCount 1.
C30_BlockedCallOpensWindowAtResume ==
    \A k \in 1..Len(history) :
        (history[k].slept /\ Returned(k)) =>
            /\ history[k].windowStart = history[k].returned
            /\ history[k].windowStart >= history[k].bucketStart + rateLimitInterval
            /\ history[k].count = 1

\* ------------------------------------------------------ Rate limiter chain
\* what a call of method() ends in: a response, or an error thrown; `axios`
\* is `error instanceof AxiosError`, `status` is error.response?.status, 0
\* for an error without a response
Response == [kind |-> "response", axios |-> FALSE, status |-> 200]
AxiosError(status) == [kind |-> "error", axios |-> TRUE, status |-> status]
PlainError(status) == [kind |-> "error", axios |-> FALSE, status |-> status]

Outcomes == {Response, AxiosError(429), AxiosError(403), AxiosError(0), PlainError(429)}

\* the requests: the outcomes of the first calls of method(), and the outcome
\* of every later call
Methods ==
    [first : UNION {[1..n -> Outcomes] : n \in 0..(MaxAttempts - 1)}, then : Outcomes]

\* the outcome of the n-th call of method()
OutcomeOf(m, n) == IF n <= Len(m.first) THEN m.first[n] ELSE m.then

\* the chains the module exports (RATE_LIMITER_GLOBAL, RATE_LIMITER_SESSION, ...)
Chains ==
    { <<"GLOBAL">>, <<"SESSION", "GLOBAL">>, <<"UPLOAD", "GLOBAL">>,
      <<"CHAPTER_UPDATE", "GLOBAL">>, <<"UPLOAD_COMMIT", "GLOBAL">>,
      <<"CHAPTER_DELETE", "GLOBAL">> }

\* the catch block retrying on every AxiosError
IsRetried_AnyAxiosError(error) == error.axios

\* error instanceof AxiosError && error.response?.status === 429
IsRetried(error) == error.axios /\ error.status = 429

\* the retry calling method() again without waiting on the limiters
RestartIndex_SkipWaits(chain) == Len(chain)

\* return this.execute(method): the loop over the limiters starts over
RestartIndex(chain) == 0

\* execute(method) has just been called
ChainInit ==
    /\ limiters \in Chains
    /\ method \in Methods
    /\ executePc = "loop"
    /\ waitIndex = 0
    /\ waited = <<>>
    /\ attempts = 0
    /\ lastError = None
    /\ EngineUnused
    /\ LimiterUnused
    /\ UploaderUnused
    /\ EditorUnused
    /\ ResolverUnused
    /\ OrchestratorUnused
    /\ ChapterEditorUnused

\* limiter.wait() is called on the next limiter of the chain
CallWait ==
    /\ executePc = "loop"
    /\ waitIndex < Len(limiters)
    /\ executePc' = "inWait"
    /\ UNCHANGED <<limiters, method, waitIndex, waited, attempts, lastError>>
    /\ UNCHANGED <<engineVars, limiterVars, uploaderVars, editorVars, resolverVars, orchestratorVars, chapterEditorVars>>

\* await limiter.wait() resumes
WaitReturns ==
    /\ executePc = "inWait"
    /\ waited' = Append(waited, limiters[waitIndex + 1])
    /\ waitIndex' = waitIndex + 1
    /\ executePc' = "loop"
    /\ UNCHANGED <<limiters, method, attempts, lastError>>
    /\ UNCHANGED <<engineVars, limiterVars, uploaderVars, editorVars, resolverVars, orchestratorVars, chapterEditorVars>>

\* the loop is over: method() is called
CallMethod ==
    /\ executePc = "loop"
    /\ waitIndex = Len(limiters)
    /\ executePc' = "inMethod"
    /\ attempts' = IF attempts < MaxAttempts THEN attempts + 1 ELSE attempts
    /\ UNCHANGED <<limiters, method, waitIndex, waited, lastError>>
    /\ UNCHANGED <<engineVars, limiterVars, uploaderVars, editorVars, resolverVars, orchestratorVars, chapterEditorVars>>

\* await method() resumes: the response is returned, or the catch block
\* retries the whole chain or rethrows
MethodSettles ==
    /\ executePc = "inMethod"
    /\ \E outcome \in {OutcomeOf(method, attempts)} :
          IF outcome.kind = "response"
          THEN /\ executePc' = "returned"
               /\ lastError' = None
               /\ UNCHANGED <<waitIndex, waited>>
          ELSE /\ lastError' = Some(outcome)
               /\ IF IsRetried(outcome)
                  THEN /\ executePc' = "loop"
                       /\ waitIndex' = RestartIndex(limiters)
                       /\ waited' = <<>>
                  ELSE /\ executePc' = "thrown"
                       /\ UNCHANGED <<waitIndex, waited>>
    /\ UNCHANGED <<limiters, method, attempts>>
    /\ UNCHANGED <<engineVars, limiterVars, uploaderVars, editorVars, resolverVars, orchestratorVars, chapterEditorVars>>

ChainNext == CallWait \/ WaitReturns \/ CallMethod \/ MethodSettles

SpecChain == ChainInit /\ [][ChainNext]_vars

\* every wait() returns and every call of method() settles
SpecChainFair == SpecChain /\ WF_vars(ChainNext)

\* -------------------------------------------------- the claims on the chain
\* C13: method() is called only after wait() has returned on every limiter
\* of the chain, the limiters being awaited one at a time in constructor
\* order, in the first attempt and in every retry.
C13_WaitsBeforeEveryAttempt ==
    /\ waitIndex <= Len(limiters)
    /\ waited = SubSeq(limiters, 1, waitIndex)
    /\ executePc = "inWait" => waitIndex < Len(limiters)
    /\ executePc = "inMethod" => waited = limiters

C13_Witness ==
    /\ executePc = "inMethod"
    /\ attempts > 1
    /\ Len(limiters) > 1
    /\ waited = limiters

ExecuteEnded == executePc \in {"returned", "thrown"}
\* method() answered HTTP 429
Throttled(outcome) == outcome.kind = "error" /\ outcome.axios /\ outcome.status = 429

AlwaysThrottled ==
    /\ Throttled(method.then)
    /\ \A n \in 1..Len(method.first) : Throttled(method.first[n])

\* the first call of method() that answers something else than a 429
FirstOther ==
    CHOOSE n \in 1..MaxAttempts :
        /\ ~Throttled(OutcomeOf(method, n))
        /\ \A j \in 1..(n - 1) : Throttled(OutcomeOf(method, j))

\* C14: execute retries on every 429 and on nothing else: it ends at the
\* first call of method() that answers something else than a 429, returning
\* the response or rethrowing the error; it never ends when method() answers
\* 429 forever, and it ends whenever method() does not.
C14_RetriesExactlyOn429 ==
    /\ [](ExecuteEnded =>
             /\ ~AlwaysThrottled
             /\ attempts = FirstOther
             /\ executePc = "returned" <=> OutcomeOf(method, attempts).kind = "response"
             /\ executePc = "thrown" => lastError = Some(OutcomeOf(method, attempts)))
    /\ [](AlwaysThrottled => ~ExecuteEnded)
    /\ (~AlwaysThrottled ~> ExecuteEnded)
    /\ (AlwaysThrottled => []<>(executePc = "inMethod"))

C14_Witness ==
    /\ AlwaysThrottled
    /\ attempts = MaxAttempts
    /\ executePc = "loop"
    /\ waitIndex = 0
    /\ lastError = Some(AxiosError(429))

\* -------------------------------------------------------- Chapter uploader
\* uploadChapterWithRetry's constants
MAX_RETRIES == 3
RETRY_DELAYS == <<2000, 5000, 10000>>

\* numbers between 0 and 1 (progress) are fractions
Fraction(n, d) == [num |-> n, den |-> d]
Zero == Fraction(0, 1)
One == Fraction(1, 1)
Plus(a, b) == Fraction(a.num * b.den + b.num * a.den, a.den * b.den)

\* the error messages met, and the searched substrings each contains
\* (String.includes is case sensitive)
Occurrences(s) ==
    CASE s = "network error" -> {"network"}
      [] s = "timeout of 30000ms exceeded" -> {"timeout"}
      [] s = "Request failed with status code 403" -> {"403"}
      [] s = "request failed with status code 403" -> {"403"}
      [] s = "Forbidden" -> {"Forbidden"}
      [] OTHER -> {}

includes(s, searchString) == searchString \in Occurrences(s)

toLowerCase(s) ==
    CASE s = "Network Error" -> "network error"
      [] s = "Request failed with status code 403" -> "request failed with status code 403"
      [] s = "Request failed with status code 500" -> "request failed with status code 500"
      [] s = "Forbidden" -> "forbidden"
      [] OTHER -> s

\* what is thrown: an AxiosError with or without a response, or another Error
AxiosRejection(response, message) ==
    [isAxiosError |-> TRUE, response |-> response, message |-> message]
OtherRejection(message) == [isAxiosError |-> FALSE, response |-> None, message |-> message]

Status(n) == Some([status |-> n])

Rejections ==
    { AxiosRejection(Status(403), "Request failed with status code 403"),
      AxiosRejection(Status(500), "Request failed with status code 500"),
      AxiosRejection(None, "Network Error"),
      OtherRejection("Request failed with status code 403"),
      OtherRejection("Cannot read properties of null") }

\* is403Error looking at AxiosErrors only
is403Error_AxiosOnly(error) ==
    error.isAxiosError /\ error.response # None /\ error.response[1].status = 403

\* error.response?.status === 403, or the message of another Error
is403Error(error) ==
    IF error.isAxiosError
    THEN error.response # None /\ error.response[1].status = 403
    ELSE includes(error.message, "403") \/ includes(error.message, "Forbidden")

\* an AxiosError without a response
isNetworkError(error) ==
    IF error.isAxiosError THEN error.response = None ELSE FALSE

Mentions403(s) == s # NULL /\ s # "" /\ (includes(s, "403") \/ includes(s, "Forbidden"))

\* has403Error looking at the chapter's error only
has403Error_ChapterOnly(chapter) == Mentions403(chapter.error)

has403Error(chapter) ==
    \/ Mentions403(chapter.error)
    \/ \E k \in 1..Len(chapter.pages) : Mentions403(chapter.pages[k].error)

MentionsNetwork(s) ==
    /\ s # NULL
    /\ s # ""
    /\ \E word \in {"network", "timeout", "econnreset", "enotfound", "econnrefused"} :
           includes(toLowerCase(s), word)

hasNetworkError(chapter) ==
    \/ MentionsNetwork(chapter.error)
    \/ \E k \in 1..Len(chapter.pages) : MentionsNetwork(chapter.pages[k].error)

\* ---------------------------------------------- chapters and their uploads
MaxChapters == 2
MaxPages == 1

FreshPage ==
    [status |-> "NOT_STARTED", progress |-> Zero, error |-> NULL,
     associatedUploadSessionFileId |-> NULL]

UploadedPage ==
    [status |-> "UPLOADED", progress |-> One, error |-> NULL,
     associatedUploadSessionFileId |-> "file"]

FailedPage(message) ==
    [status |-> "FAILED", progress |-> Zero, error |-> message,
     associatedUploadSessionFileId |-> NULL]

FreshChapter(title, n) ==
    [chapterTitle |-> title, status |-> "NOT_STARTED", progress |-> Zero, error |-> NULL,
     associatedUploadSessionId |-> NULL, pages |-> [k \in 1..n |-> FreshPage]]

CompletedChapter(title, n) ==
    [chapterTitle |-> title, status |-> "COMPLETED", progress |-> One, error |-> NULL,
     associatedUploadSessionId |-> "session", pages |-> [k \in 1..n |-> UploadedPage]]

\* the chapters startUpload hands to the uploader: FAILED ones were reset
ChapterPool ==
    { FreshChapter(t, n) : t \in {NULL, "Chapter 1"}, n \in 1..MaxPages }
        \cup { CompletedChapter(t, n) : t \in {NULL, "Chapter 1"}, n \in 1..MaxPages }

ChapterLists == UNION { [1..n -> ChapterPool] : n \in 1..MaxChapters }

\* the failures upload() records on the chapter, and what each is
Messages ==
    { "Network Error", "timeout of 30000ms exceeded",
      "Request failed with status code 403", "Request failed with status code 500" }

CauseOfMessage(message) ==
    CASE message \in {"Network Error", "timeout of 30000ms exceeded"} -> "network"
      [] message = "Request failed with status code 403" -> "403"
      [] OTHER -> "other"

CauseOfRejection(error) ==
    IF error.isAxiosError
    THEN IF error.response = None THEN "network"
         ELSE IF error.response[1].status = 403 THEN "403" ELSE "other"
    ELSE CauseOfMessage(error.message)

\* the chapter after an upload that stopped at its last page
FailedAtLastPage(chapter, chapterError, pageError) ==
    [chapter EXCEPT
        !.status = "FAILED",
        !.progress = Fraction(Len(chapter.pages) - 1, Len(chapter.pages)),
        !.error = chapterError,
        !.associatedUploadSessionId = "session",
        !.pages = [k \in 1..Len(chapter.pages) |->
                       IF k < Len(chapter.pages) THEN UploadedPage ELSE FailedPage(pageError)]]

\* what `await chapter.upload(authToken)` can end in: the chapter as upload()
\* leaves it, what it throws if it throws, and what went wrong
UploadOutcomes(chapter) ==
    { [chapter |-> CompletedChapter(chapter.chapterTitle, Len(chapter.pages)),
       thrown |-> None, cause |-> "none"] }
    \cup { [chapter |-> FailedAtLastPage(chapter, m, m),
            thrown |-> None, cause |-> CauseOfMessage(m)] : m \in Messages }
    \cup { [chapter |-> FailedAtLastPage(chapter, NULL, m),
            thrown |-> None, cause |-> CauseOfMessage(m)] : m \in Messages }
    \cup { [chapter |-> FailedAtLastPage(chapter, e.message, e.message),
            thrown |-> Some(e), cause |-> CauseOfRejection(e)] : e \in Rejections }
    \cup { [chapter |-> FailedAtLastPage(chapter, NULL, NULL),
            thrown |-> Some(e), cause |-> CauseOfRejection(e)] : e \in Rejections }

\* ----------------------------------------------- uploadChapterWithRetry
\* RETRY_DELAYS[delayIndex] || RETRY_DELAYS[RETRY_DELAYS.length - 1]
RetryDelay(n) ==
    IF n - 1 < Len(RETRY_DELAYS) /\ RETRY_DELAYS[n] # 0
    THEN RETRY_DELAYS[n]
    ELSE RETRY_DELAYS[Len(RETRY_DELAYS)]

\* the reset of the chapter and of its pages before a retry
ResetForRetry(chapter) ==
    [chapter EXCEPT
        !.status = "NOT_STARTED",
        !.progress = Zero,
        !.error = NULL,
        !.associatedUploadSessionId = NULL,
        !.pages = [k \in 1..Len(chapter.pages) |-> FreshPage]]

Return(chapter, success, shouldStop) ==
    [kind |-> "return", chapter |-> chapter, success |-> success, shouldStop |-> shouldStop,
     delay |-> 0]

Retry(chapter, n) ==
    [kind |-> "retry", chapter |-> chapter, success |-> FALSE, shouldStop |-> FALSE,
     delay |-> RetryDelay(n)]

\* uploadChapterWithRetry from the moment upload() has settled: its result,
\* or the retry it goes to sleep for
uploadChapterWithRetry(chapter, thrown, n) ==
    IF thrown = None
    THEN IF chapter.status = "COMPLETED" THEN Return(chapter, TRUE, FALSE)
         ELSE IF has403Error(chapter) THEN Return(chapter, FALSE, TRUE)
         ELSE IF hasNetworkError(chapter) /\ n <= MAX_RETRIES
                 THEN Retry(ResetForRetry(chapter), n)
         ELSE Return(chapter, FALSE, FALSE)
    ELSE IF is403Error(thrown[1]) THEN Return(chapter, FALSE, TRUE)
         ELSE IF isNetworkError(thrown[1]) /\ n <= MAX_RETRIES THEN Retry(chapter, n)
         ELSE Return(chapter, FALSE, FALSE)

\* ------------------------------------------------------------ uploadAll
RECURSIVE SumProgress(_, _)
SumProgress(chs, n) ==
    IF n = 0 THEN Zero ELSE Plus(SumProgress(chs, n - 1), chs[n].progress)

\* the mean of the chapters' progress
checkProgress(chs) ==
    IF Len(chs) = 0
    THEN Zero
    ELSE LET Mean(sum) == Fraction(sum.num, sum.den * Len(chs))
         IN Mean(SumProgress(chs, Len(chs)))

\* this.chapters.filter(chapter => chapter.status !== COMPLETED)
ChaptersToUpload(chs) ==
    SelectSeq([k \in 1..Len(chs) |-> k], LAMBDA k : chs[k].status # "COMPLETED")

\* where uploadAll stands and the uploader's fields
Run(pc, status, progress, error, index) ==
    [pc |-> pc, status |-> status, progress |-> progress, error |-> error, index |-> index]

\* the loop over chaptersToUpload from its k-th chapter, up to the next
\* upload() or to the end of the run
RECURSIVE UploadLoop(_, _, _, _, _)
UploadLoop(chs, toUpload, k, progress, index) ==
    IF k > Len(toUpload)
    THEN Run("returned", "COMPLETED", One, NULL, index)
    ELSE IF chs[toUpload[k]].status = "COMPLETED"
         THEN UploadLoop(chs, toUpload, k + 1, checkProgress(chs), k - 1)
         ELSE Run("upload", "IN_PROGRESS", progress, NULL, k - 1)

\* the failed chapter's error reported as it is
FailureMessage_NoDefault(chapter) == chapter.error

\* every failed chapter reported with the default message
FailureMessage_AlwaysDefault(chapter) == "Failed to upload chapter: Unknown"

\* chapter.error || `Failed to upload chapter: ${chapter.chapterTitle || 'Unknown'}`
FailureMessage(chapter) ==
    IF chapter.error # NULL /\ chapter.error # ""
    THEN chapter.error
    ELSE "Failed to upload chapter: " \o
             (IF chapter.chapterTitle # NULL /\ chapter.chapterTitle # ""
              THEN chapter.chapterTitle ELSE "Unknown")

\* every result of uploadChapterWithRetry taken for a success
Succeeded_Always(result) == TRUE

\* !result.success is false
Succeeded(result) == result.success

\* uploadAll from the result of uploadChapterWithRetry for its k-th chapter
AfterResult(chs, toUpload, k, result) ==
    IF result.shouldStop
    THEN Run("returned", "STOPPED", Zero, "403 Forbidden: Access denied. Upload stopped.",
             k - 1)
    ELSE IF ~Succeeded(result)
         THEN IF hasNetworkError(result.chapter)
              THEN Run("returned", "PAUSED", Zero,
                       "Network error: Upload failed after 3 retry attempts. Upload paused. Please check your connection and resume manually.",
                       k - 1)
              ELSE Run("returned", "FAILED", Zero, FailureMessage(result.chapter), k - 1)
         ELSE UploadLoop(chs, toUpload, k + 1, checkProgress(chs), k - 1)

\* the answers of GET /upload and of DELETE /upload/{id} through
\* RATE_LIMITER_SESSION.execute (a 429 is retried inside execute)
GetOutcomes ==
    { [thrown |-> None, status |-> 204, id |-> NULL],
      [thrown |-> None, status |-> 200, id |-> NULL],
      [thrown |-> None, status |-> 200, id |-> "session"] }
    \cup { [thrown |-> Some(e), status |-> 0, id |-> NULL] : e \in Rejections }

DeleteOutcomes ==
    { [thrown |-> None, status |-> 204] }
    \cup { [thrown |-> Some(e), status |-> 0] : e \in Rejections }

\* the uploader startUpload has constructed
UploaderConstructed ==
    /\ uploaderStatus = "NOT_STARTED"
    /\ uploaderProgress = Zero
    /\ uploaderError = NULL
    /\ currentChapterIndex = -1
    /\ uploadAllPc = "constructed"
    /\ chaptersToUpload = <<>>
    /\ attempt = 0
    /\ delay = 0
    /\ chaptersAtStart = uploaderChapters
    /\ uploadCalls = [k \in 1..Len(uploaderChapters) |-> 0]
    /\ causes = <<>>
    /\ delaysSlept = <<>>
    /\ cleanup = "pending"
    /\ apiCalls = <<>>
    /\ uploadsInFlight = 0
    /\ EngineUnused
    /\ LimiterUnused
    /\ ChainUnused
    /\ EditorUnused
    /\ ResolverUnused
    /\ OrchestratorUnused
    /\ ChapterEditorUnused

\* the orchestrator's uploader: it is constructed with a token and chapters
UploaderInit ==
    /\ uploaderChapters \in ChapterLists
    /\ authToken = "token"
    /\ UploaderConstructed

\* the uploader's fields and uploadAll's position become r; an upload()
\* that starts is counted
SetRun(r, toUpload) ==
    /\ uploadAllPc' = r.pc
    /\ uploaderStatus' = r.status
    /\ uploaderProgress' = r.progress
    /\ uploaderError' = r.error
    /\ currentChapterIndex' = r.index
    /\ chaptersToUpload' = toUpload
    /\ delay' = 0
    /\ uploadsInFlight' = (IF uploadAllPc = "upload" THEN uploadsInFlight - 1
                           ELSE uploadsInFlight) + (IF r.pc = "upload" THEN 1 ELSE 0)
    /\ IF r.pc = "upload"
       THEN /\ attempt' = 1
            /\ uploadCalls' = [uploadCalls EXCEPT ![toUpload[r.index + 1]] = @ + 1]
            /\ delaysSlept' = <<>>
       ELSE UNCHANGED <<attempt, uploadCalls, delaysSlept>>

\* uploadAll() and reset() are called while no run is in flight, and
\* uploadAll() also while one is
MaxApiCalls == 3
MaxAggEntries == 2
MaxLocalChapters == 2
\* the chapters of a batch that applyChangesFromDump answers with a failure or
\* a correction
MaxCorrected == 1
MaxQueryCallers == 2
MaxFetches == 2
MaxOrchestratorChapters == 2

NoRunInFlight == uploadAllPc \in {"constructed", "returned"}

\* uploadAll starting a run whatever the status
AlreadyUploading_Never(status) == FALSE

\* this.status === UploaderStatus.IN_PROGRESS
AlreadyUploading(status) == status = "IN_PROGRESS"

\* reset() leaving the COMPLETED chapters as they are
reset_FailedOnly(chs) ==
    [k \in 1..Len(chs) |->
        IF chs[k].status = "COMPLETED" THEN chs[k] ELSE ResetForRetry(chs[k])]

\* the chapters after reset(): every chapter and every page is reset
reset(chs) == [k \in 1..Len(chs) |-> ResetForRetry(chs[k])]

\* uploadAll, from its call to its early return or to the await of the
\* session cleanup
UploadAllCalled ==
    /\ Len(apiCalls) < MaxApiCalls
    /\ apiCalls' = Append(apiCalls, [method |-> "uploadAll", status |-> uploaderStatus])
    /\ IF AlreadyUploading(uploaderStatus)
       THEN UNCHANGED <<uploadAllPc, uploaderStatus, uploaderProgress, uploaderError,
                        currentChapterIndex, chaptersToUpload, attempt, delay,
                        chaptersAtStart, uploadCalls, causes, delaysSlept, cleanup>>
       ELSE /\ IF authToken = NULL \/ authToken = ""
               THEN /\ uploadAllPc' = "returned"
                    /\ uploaderStatus' = "FAILED"
                    /\ uploaderError' = "No authentication token provided"
                    /\ uploaderProgress' = Zero
                    /\ UNCHANGED currentChapterIndex
               ELSE IF Len(uploaderChapters) = 0
               THEN /\ uploadAllPc' = "returned"
                    /\ uploaderStatus' = "FAILED"
                    /\ uploaderError' = "No chapters to upload"
                    /\ uploaderProgress' = Zero
                    /\ UNCHANGED currentChapterIndex
               ELSE /\ uploadAllPc' = "cleanupGet"
                    /\ uploaderStatus' = "IN_PROGRESS"
                    /\ uploaderProgress' = Zero
                    /\ uploaderError' = NULL
                    /\ currentChapterIndex' = 0
            /\ chaptersToUpload' = <<>>
            /\ attempt' = 0
            /\ delay' = 0
            /\ chaptersAtStart' = uploaderChapters
            /\ uploadCalls' = [k \in 1..Len(uploaderChapters) |-> 0]
            /\ causes' = <<>>
            /\ delaysSlept' = <<>>
            /\ cleanup' = "pending"
    /\ UNCHANGED <<uploaderChapters, authToken, uploadsInFlight>>
    /\ UNCHANGED <<engineVars, limiterVars, chainVars, editorVars, resolverVars, orchestratorVars, chapterEditorVars>>

\* uploadAll is called on the uploader just constructed, or just reset
UploadAll ==
    /\ uploadAllPc = "constructed"
    /\ UploadAllCalled

\* uploadAll is called again, during the run or after it
UploadAllAgain ==
    /\ uploadAllPc # "constructed"
    /\ UploadAllCalled

\* reset() is called
Reset ==
    /\ Len(apiCalls) < MaxApiCalls
    /\ NoRunInFlight
    /\ apiCalls' = Append(apiCalls, [method |-> "reset", status |-> uploaderStatus])
    /\ uploadAllPc' = "constructed"
    /\ uploaderStatus' = "NOT_STARTED"
    /\ uploaderProgress' = Zero
    /\ uploaderError' = NULL
    /\ currentChapterIndex' = -1
    /\ \E chs \in {reset(uploaderChapters)} :
          /\ uploaderChapters' = chs
          /\ chaptersAtStart' = chs
    /\ chaptersToUpload' = <<>>
    /\ attempt' = 0
    /\ delay' = 0
    /\ uploadCalls' = [k \in 1..Len(uploaderChapters) |-> 0]
    /\ causes' = <<>>
    /\ delaysSlept' = <<>>
    /\ cleanup' = "pending"
    /\ UNCHANGED <<authToken, uploadsInFlight>>
    /\ UNCHANGED <<engineVars, limiterVars, chainVars, editorVars, resolverVars, orchestratorVars, chapterEditorVars>>

\* the catch of the cleanup: a 403 stops the run, anything else is swallowed
\* and the loop over the chapters starts
CleanupSettled(thrown, request) ==
    /\ cleanup' = IF thrown = None THEN request ELSE CauseOfRejection(thrown[1])
    /\ IF thrown # None /\ is403Error(thrown[1])
       THEN /\ uploadAllPc' = "returned"
            /\ uploaderStatus' = "STOPPED"
            /\ uploaderError' = "403 Forbidden: Access denied"
            /\ uploaderProgress' = Zero
            /\ UNCHANGED <<currentChapterIndex, chaptersToUpload, attempt, delay,
                           uploadCalls, delaysSlept, uploadsInFlight>>
       ELSE \E toUpload \in {ChaptersToUpload(uploaderChapters)} :
                \E r \in {UploadLoop(uploaderChapters, toUpload, 1, uploaderProgress,
                                     currentChapterIndex)} :
                    SetRun(r, toUpload)
    /\ UNCHANGED <<uploaderChapters, authToken, chaptersAtStart, causes, apiCalls>>
    /\ UNCHANGED <<engineVars, limiterVars, chainVars, editorVars, resolverVars, orchestratorVars, chapterEditorVars>>

\* deletePreexistingUploadSessions: the GET settles
CleanupGetSettles ==
    /\ uploadAllPc = "cleanupGet"
    /\ \E o \in GetOutcomes :
          IF o.thrown = None /\ o.status = 200 /\ o.id # NULL /\ o.id # ""
          THEN /\ uploadAllPc' = "cleanupDelete"
               /\ UNCHANGED <<uploaderChapters, authToken, uploaderStatus, uploaderProgress,
                              uploaderError, currentChapterIndex, chaptersToUpload, attempt,
                              delay, chaptersAtStart, uploadCalls, causes, delaysSlept,
                              cleanup, apiCalls, uploadsInFlight>>
               /\ UNCHANGED <<engineVars, limiterVars, chainVars, editorVars, resolverVars, orchestratorVars, chapterEditorVars>>
          ELSE CleanupSettled(o.thrown, "none found")

\* deletePreexistingUploadSessions: the DELETE settles
CleanupDeleteSettles ==
    /\ uploadAllPc = "cleanupDelete"
    /\ \E o \in DeleteOutcomes : CleanupSettled(o.thrown, "deleted")

\* upload() settles: uploadChapterWithRetry goes to sleep for a retry, or
\* returns and uploadAll goes on to the next upload() or ends the run
UploadSettles ==
    /\ uploadAllPc = "upload"
    /\ \E j \in {chaptersToUpload[currentChapterIndex + 1]} :
       \E o \in UploadOutcomes(uploaderChapters[j]) :
       \E step \in {uploadChapterWithRetry(o.chapter, o.thrown, attempt)} :
       \E chs \in {[uploaderChapters EXCEPT ![j] = step.chapter]} :
          /\ uploaderChapters' = chs
          /\ IF step.kind = "retry"
             THEN /\ uploadAllPc' = "sleep"
                  /\ delay' = step.delay
                  /\ causes' = Append(causes, o.cause)
                  /\ uploadsInFlight' = uploadsInFlight - 1
                  /\ UNCHANGED <<uploaderStatus, uploaderProgress, uploaderError,
                                 currentChapterIndex, chaptersToUpload, attempt,
                                 uploadCalls, delaysSlept>>
             ELSE \E r \in {AfterResult(chs, chaptersToUpload, currentChapterIndex + 1, step)} :
                      /\ SetRun(r, chaptersToUpload)
                      /\ causes' = IF r.pc = "upload" THEN <<>> ELSE Append(causes, o.cause)
    /\ UNCHANGED <<authToken, chaptersAtStart, cleanup, apiCalls>>
    /\ UNCHANGED <<engineVars, limiterVars, chainVars, editorVars, resolverVars, orchestratorVars, chapterEditorVars>>

\* the sleep before a retry is over: upload() is called again
RetryTimerFires ==
    /\ uploadAllPc = "sleep"
    /\ uploadAllPc' = "upload"
    /\ attempt' = attempt + 1
    /\ delaysSlept' = Append(delaysSlept, delay)
    /\ delay' = 0
    /\ uploadsInFlight' = uploadsInFlight + 1
    /\ uploadCalls' =
           [uploadCalls EXCEPT ![chaptersToUpload[currentChapterIndex + 1]] = @ + 1]
    /\ UNCHANGED <<uploaderChapters, authToken, uploaderStatus, uploaderProgress,
                   uploaderError, currentChapterIndex, chaptersToUpload, chaptersAtStart,
                   causes, cleanup, apiCalls>>
    /\ UNCHANGED <<engineVars, limiterVars, chainVars, editorVars, resolverVars, orchestratorVars, chapterEditorVars>>

UploaderNext ==
    \/ UploadAll
    \/ CleanupGetSettles
    \/ CleanupDeleteSettles
    \/ UploadSettles
    \/ RetryTimerFires

SpecUploader == UploaderInit /\ [][UploaderNext]_vars

\* the uploader and its caller: uploadAll() at any time, reset() between runs
UploaderApiInit ==
    /\ uploaderChapters \in
           {<<>>} \cup {chs \in ChapterLists :
                           \A k \in 1..Len(chs) : /\ chs[k].chapterTitle = NULL
                                                  /\ Len(chs[k].pages) = 1}
    /\ authToken \in {"token", ""}
    /\ UploaderConstructed

UploaderApiNext == UploaderNext \/ UploadAllAgain \/ Reset

SpecUploaderApi == UploaderApiInit /\ [][UploaderApiNext]_vars

\* ----------------------------------------------- the claims on the uploader
RunOver == uploadAllPc = "returned"

\* the chapter uploadChapterWithRetry was last called for
Current == chaptersToUpload[currentChapterIndex + 1]

\* the last upload() of the current chapter ended in `cause`
LastCause(cause) == causes # <<>> /\ causes[Len(causes)] = cause

\* the chapters that came before the current one in the run are COMPLETED,
\* those that come after it were not attempted and are as they were
RunStoppedAtCurrent ==
    /\ RunOver
    /\ uploadCalls[Current] = Len(causes)
    /\ \A k \in 1..currentChapterIndex :
           uploaderChapters[chaptersToUpload[k]].status = "COMPLETED"
    /\ \A k \in (currentChapterIndex + 2)..Len(chaptersToUpload) :
           /\ uploadCalls[chaptersToUpload[k]] = 0
           /\ uploaderChapters[chaptersToUpload[k]].status = "NOT_STARTED"
    /\ \A j \in 1..Len(uploaderChapters) :
           uploadCalls[j] = 0 => uploaderChapters[j] = chaptersAtStart[j]

\* C15: a 403 on a chapter (thrown by upload() or recorded on the chapter or
\* on a page) ends the run in STOPPED at once: that chapter is not retried,
\* no later chapter is attempted, the chapters not attempted are as they
\* were before the run, and the chapters completed before it are COMPLETED.
C15_ForbiddenStopsTheRun ==
    (\E n \in 1..Len(causes) : causes[n] = "403") =>
        /\ LastCause("403")
        /\ uploaderStatus = "STOPPED"
        /\ RunStoppedAtCurrent

C15_Witness ==
    /\ LastCause("403")
    /\ Len(causes) > 1
    /\ uploaderStatus = "STOPPED"
    /\ Len(chaptersToUpload) = MaxChapters
    /\ currentChapterIndex = 0

HasError(chapter) ==
    \/ chapter.error # NULL
    \/ \E k \in 1..Len(chapter.pages) : chapter.pages[k].error # NULL

\* C16: when the run is over after three or more consecutive network
\* failures of one chapter, it is PAUSED, the chapter carries its error and
\* is not reset, and the chapters completed before it are COMPLETED.
C16_NetworkFailuresPauseTheRun ==
    (/\ RunOver
     /\ Len(causes) >= 3
     /\ \A n \in 1..Len(causes) : causes[n] = "network") =>
        /\ uploaderStatus = "PAUSED"
        /\ HasError(uploaderChapters[Current])
        /\ uploaderChapters[Current].status = "FAILED"
        /\ RunStoppedAtCurrent

\* C31: when the first upload of a chapter and its three retries have all
\* failed on the network, whether upload() recorded the failure on the
\* chapter or threw it without a response, the run is over as PAUSED.
C31_ExhaustedNetworkRetriesPause ==
    (/\ RunOver
     /\ Len(causes) = MAX_RETRIES + 1
     /\ \A n \in 1..Len(causes) : causes[n] = "network") =>
        uploaderStatus = "PAUSED"

IsReset(chapter) ==
    /\ chapter.status = "NOT_STARTED"
    /\ chapter.progress = Zero
    /\ chapter.error = NULL
    /\ chapter.associatedUploadSessionId = NULL
    /\ \A k \in 1..Len(chapter.pages) :
           /\ chapter.pages[k].status = "NOT_STARTED"
           /\ chapter.pages[k].progress = Zero
           /\ chapter.pages[k].error = NULL
           /\ chapter.pages[k].associatedUploadSessionFileId = NULL

\* C17: a chapter is retried at most 3 times, only after a network failure,
\* the retries being delayed by 2 s, 5 s and 10 s in that order, and
\* whenever a retry is being waited for the chapter and its pages are reset.
C17_ResetBeforeEveryRetry ==
    /\ Len(delaysSlept) <= 3
    /\ \A n \in 1..Len(delaysSlept) : delaysSlept[n] = <<2000, 5000, 10000>>[n]
    /\ \A j \in 1..Len(uploadCalls) : uploadCalls[j] <= 4
    /\ uploadAllPc = "sleep" =>
           /\ LastCause("network")
           /\ Len(delaysSlept) < 3
           /\ delay = <<2000, 5000, 10000>>[Len(delaysSlept) + 1]
           /\ IsReset(uploaderChapters[Current])

\* C18: a failure of a chapter that is neither a 403 nor a network failure
\* ends the run in FAILED at once: the chapter is not retried, no later
\* chapter is attempted, and the uploader's error is the chapter's error, or
\* the default message when the chapter has none.
C18_OtherFailureFailsTheRun ==
    (\E n \in 1..Len(causes) : causes[n] = "other") =>
        /\ LastCause("other")
        /\ uploaderStatus = "FAILED"
        /\ RunStoppedAtCurrent
        /\ uploaderChapters[Current].error # NULL =>
               uploaderError = uploaderChapters[Current].error
        /\ uploaderChapters[Current].error = NULL =>
               uploaderError \in { "Failed to upload chapter: Unknown",
                                   "Failed to upload chapter: Chapter 1" }
        /\ uploaderError # NULL

C18_Witness ==
    /\ LastCause("other")
    /\ Len(causes) > 1
    /\ uploaderStatus = "FAILED"
    /\ uploaderError = "Request failed with status code 500"
    /\ Len(chaptersToUpload) = MaxChapters
    /\ currentChapterIndex = 0

\* C19: a 403 in the session cleanup ends the run in STOPPED with no
\* upload() called and every chapter as it was; after any other cleanup
\* error the run goes on: the chapters to upload are selected and the first
\* of them is uploaded, or the run is COMPLETED when there is none.
C19_CleanupForbiddenStops ==
    /\ cleanup = "403" =>
           /\ RunOver
           /\ uploaderStatus = "STOPPED"
           /\ uploaderError # NULL
           /\ uploaderChapters = chaptersAtStart
           /\ \A j \in 1..Len(uploadCalls) : uploadCalls[j] = 0
    /\ cleanup \in {"network", "other"} =>
           /\ chaptersToUpload = ChaptersToUpload(chaptersAtStart)
           /\ chaptersToUpload # <<>> => uploadCalls[chaptersToUpload[1]] > 0
           /\ chaptersToUpload = <<>> => RunOver /\ uploaderStatus = "COMPLETED"

C19_Witness ==
    /\ cleanup = "403"
    /\ uploaderStatus = "STOPPED"
    /\ \E j \in 1..Len(uploaderChapters) : uploaderChapters[j].status = "NOT_STARTED"

AllCompleted == \A j \in 1..Len(uploaderChapters) : uploaderChapters[j].status = "COMPLETED"

NeverUploadsCompleted ==
    \A j \in 1..Len(uploaderChapters) :
        chaptersAtStart[j].status = "COMPLETED" => uploadCalls[j] = 0

EndedCompleted ==
    /\ uploaderStatus = "COMPLETED"
    /\ uploaderProgress = One
    /\ uploaderError = NULL

LastCall == apiCalls[Len(apiCalls)]

\* the step is a call of uploadAll() on an uploader that is IN_PROGRESS
CalledWhileUploading ==
    /\ Len(apiCalls') = Len(apiCalls) + 1
    /\ apiCalls'[Len(apiCalls')] = [method |-> "uploadAll", status |-> "IN_PROGRESS"]

RunState ==
    <<uploaderChapters, authToken, uploaderStatus, uploaderProgress, uploaderError,
      currentChapterIndex, uploadAllPc, chaptersToUpload, attempt, delay, uploadCalls,
      uploadsInFlight>>

\* C21: during a run at most one upload() is in flight, the chapters are
\* taken in the order of the list, the ones before the current chapter are
\* COMPLETED and the ones after it have not been attempted; a call of
\* uploadAll() on an uploader that is IN_PROGRESS changes nothing and starts
\* no upload.
C21_OneAtATimeInOrder ==
    /\ [](/\ uploadsInFlight <= 1
          /\ uploadsInFlight = 1 <=> uploadAllPc = "upload"
          /\ uploadAllPc # "constructed" =>
                 /\ \A a, b \in 1..Len(chaptersToUpload) :
                        a < b => chaptersToUpload[a] < chaptersToUpload[b]
                 /\ \A k \in 1..Len(chaptersToUpload) :
                        /\ k < currentChapterIndex + 1 =>
                               uploaderChapters[chaptersToUpload[k]].status = "COMPLETED"
                        /\ k > currentChapterIndex + 1 =>
                               uploadCalls[chaptersToUpload[k]] = 0)
    /\ [][CalledWhileUploading => UNCHANGED RunState]_vars

C21_Witness ==
    /\ \E n \in 1..Len(apiCalls) :
           apiCalls[n] = [method |-> "uploadAll", status |-> "IN_PROGRESS"]
    /\ uploadAllPc = "upload"
    /\ currentChapterIndex = 1
    /\ uploaderChapters[chaptersToUpload[1]].status = "COMPLETED"

Terminal == {"COMPLETED", "FAILED", "PAUSED", "STOPPED"}

\* C22: the status changes only from NOT_STARTED to IN_PROGRESS, from
\* IN_PROGRESS to COMPLETED, FAILED, PAUSED or STOPPED, and by reset().
C22_StatusTransitions ==
    [][uploaderStatus' # uploaderStatus =>
           \/ uploaderStatus = "NOT_STARTED" /\ uploaderStatus' = "IN_PROGRESS"
           \/ uploaderStatus = "IN_PROGRESS" /\ uploaderStatus' \in Terminal
           \/ /\ Len(apiCalls') = Len(apiCalls) + 1
              /\ apiCalls'[Len(apiCalls')].method = "reset"]_vars

\* C23: when uploadAll has returned from a run, the status is COMPLETED,
\* FAILED, PAUSED or STOPPED, and the error is null exactly when it is
\* COMPLETED.
C23_RunEndsInTerminalStatus ==
    RunOver =>
        /\ uploaderStatus \in Terminal
        /\ uploaderStatus = "COMPLETED" <=> uploaderError = NULL

C23_Witness ==
    /\ RunOver
    /\ uploaderStatus = "FAILED"
    /\ uploaderError = "Failed to upload chapter: Unknown"
    /\ uploaderChapters[Current].error = NULL
    /\ Len(apiCalls) > 1

AggregateGroups ==
    [x \in 0..2 |-> CASE x = 0 -> [id |-> "", name |-> "No Group"]
                      [] x = 1 -> [id |-> "g1", name |-> "Group A"]
                      [] x = 2 -> [id |-> "g2", name |-> "No Group"]]

\* the group indices an entry of the aggregate may carry
EntryGroupIndices == {{}, {0}, {1}, {0, 1}, {2}}

AggregateVolumes == {NULL, "1"}

RECURSIVE SumEntries(_)
SumEntries(agg) ==
    IF agg = {} THEN 0
    ELSE LET c == CHOOSE x \in agg : TRUE
         IN  Cardinality(c.entries) + SumEntries(agg \ {c})

\* the published chapters: at most one record per volume and chapter, each
\* with its entries (an entry is the set of its group indices), at most
\* MaxAggEntries entries in all
Aggregates ==
    {a \in {{[volume |-> v, chapter |-> "1", entries |-> f[v]] : v \in DOMAIN f} :
               f \in UNION {[vs -> {es \in SUBSET EntryGroupIndices :
                                        Cardinality(es) <= MaxAggEntries}] :
                               vs \in SUBSET AggregateVolumes}} :
        SumEntries(a) <= MaxAggEntries}

\* the groups a local chapter may carry
LocalGroupIds == {{}, {"g1"}, {"g1", "g2"}}

LocalChapter(volume, groupIds) ==
    [chapterVolume |-> volume, chapterNumber |-> "1", groupIds |-> groupIds]

LocalChapterLists ==
    UNION {[1..n -> {LocalChapter(v, g) : v \in {NULL, "1"}, g \in LocalGroupIds}] :
              n \in 1..MaxLocalChapters}

\* `${volume || 'none'}:${chapter || 'none'}`
OrNone(value) == IF value = NULL \/ value = "" THEN "none" ELSE value

DuplicateKey(volume, chapter) == <<OrNone(volume), OrNone(chapter)>>

\* existingChapters.get(key): the records of the aggregate under the key
existingChapters(agg, key) ==
    {c \in agg : DuplicateKey(c.volume, c.chapter) = key}

\* hasNoGroup with the marker recognised by its name alone
hasNoGroup_ByNameOnly(groupIndices) ==
    \E x \in groupIndices : x \in DOMAIN AggregateGroups /\ AggregateGroups[x].name = "No Group"

\* the entry carries the "No Group" marker: a group of that name without id
hasNoGroup(groupIndices) ==
    \E x \in groupIndices :
        /\ x \in DOMAIN AggregateGroups
        /\ AggregateGroups[x].name = "No Group"
        /\ AggregateGroups[x].id = ""

\* the ids of the entry's groups that have one
getGroupIdsFromIndices(groupIndices) ==
    {AggregateGroups[x].id : x \in {j \in groupIndices : /\ j \in DOMAIN AggregateGroups
                                                        /\ AggregateGroups[j].id # ""}}

hasMatchingGroup(uploadingGroupIds, entryGroupIds, entryHasNoGroup) ==
    IF uploadingGroupIds = {}
    THEN entryHasNoGroup /\ entryGroupIds = {}
    ELSE IF entryHasNoGroup
    THEN FALSE
    ELSE uploadingGroupIds \cap entryGroupIds # {}

\* the chapter has a matching entry among the published ones under its key
IsDuplicate(agg, chapter) ==
    \E c \in existingChapters(agg, DuplicateKey(chapter.chapterVolume, chapter.chapterNumber)) :
        /\ c.entries # {}
        /\ \E groupIndices \in c.entries :
               hasMatchingGroup(chapter.groupIds, getGroupIdsFromIndices(groupIndices),
                                hasNoGroup(groupIndices))

\* the warnings of a chapter that are not duplicate warnings
WithoutDuplicates(warnings) == SeqFilter(warnings, {WarningReason[r] : r \in DOMAIN WarningReason} \ {WarningReason.DUPLICATE_CHAPTER})

\* chapterWarnings after checkForDuplicates has gone through the chapters
checkForDuplicates(agg, chapterList, warnings) ==
    [k \in 1..Len(chapterList) |->
        IF IsDuplicate(agg, chapterList[k])
        THEN Append(WithoutDuplicates(warnings[k]), WarningReason.DUPLICATE_CHAPTER)
        ELSE WithoutDuplicates(warnings[k])]

\* the other volume of the two a local chapter may carry
OtherVolume(volume) == IF volume = NULL THEN "1" ELSE NULL

ApplierResult(changeStatus, volume, additionalGroupIds, warnings) ==
    [status |-> changeStatus, volume |-> volume, additionalGroupIds |-> additionalGroupIds,
     warnings |-> warnings]

\* the results applyChangesFromDump may give one chapter (Part 1 has them in
\* full): nothing to change, the chapter not found, the volume corrected by
\* the fallback match, and for a chapter of group g1 alone the second group of
\* its release added, with or without the volume correction
ApplierResults(chapter) ==
    {ApplierResult(ChangeStatus.NO_CHANGES, UNDEFINED, {}, <<>>),
     ApplierResult(ChangeStatus.FAILED, UNDEFINED, {}, <<WarningReason.NO_CHAPTER_INFO>>),
     ApplierResult(ChangeStatus.SUCCESS, OtherVolume(chapter.chapterVolume), {},
                   <<WarningReason.VOLUME_MISMATCH>>)}
    \cup
    (IF chapter.groupIds = {"g1"}
     THEN {ApplierResult(ChangeStatus.SUCCESS, UNDEFINED, {"g2"},
                         <<WarningReason.PARTIAL_GROUP_MATCH>>),
           ApplierResult(ChangeStatus.SUCCESS, OtherVolume(chapter.chapterVolume), {"g2"},
                         <<WarningReason.VOLUME_MISMATCH, WarningReason.PARTIAL_GROUP_MATCH>>)}
     ELSE {})

\* result.results of applyChangesFromDump for the chapters, at most
\* MaxCorrected of them other than "nothing to change"
ResultsFor(chapterList) ==
    {f \in [1..Len(chapterList) ->
                UNION {ApplierResults(chapterList[k]) : k \in 1..Len(chapterList)}] :
        /\ \A k \in 1..Len(chapterList) : f[k] \in ApplierResults(chapterList[k])
        /\ Cardinality({k \in 1..Len(chapterList) :
                            f[k].status # ChangeStatus.NO_CHANGES}) <= MaxCorrected}

\* the chapters after applyTitlesToChapters: the volume and the additional
\* groups of a SUCCESS or NO_CHANGES result are written to the chapter
applyChangesToChapterStates(chapterList, fromApplier) ==
    [k \in 1..Len(chapterList) |->
        IF fromApplier[k].status \in {ChangeStatus.SUCCESS, ChangeStatus.NO_CHANGES}
        THEN [chapterList[k] EXCEPT
                 !.chapterVolume = IF fromApplier[k].volume # UNDEFINED
                                   THEN fromApplier[k].volume ELSE @,
                 !.groupIds = @ \cup fromApplier[k].additionalGroupIds]
        ELSE chapterList[k]]

\* applyTitlesToChapters keeping every warning the chapter had
applyTitlesToChapters_KeepingAll(warnings, fromApplier) ==
    [k \in 1..Len(warnings) |-> warnings[k] \o fromApplier[k].warnings]

\* chapterWarnings after applyTitlesToChapters: the duplicate warnings are
\* kept, the others replaced by the applier's
applyTitlesToChapters(warnings, fromApplier) ==
    [k \in 1..Len(warnings) |->
        SeqFilter(warnings[k], {WarningReason.DUPLICATE_CHAPTER}) \o fromApplier[k].warnings]

HasReason(warnings, reason) ==
    {k \in 1..Len(warnings) : \E n \in 1..Len(warnings[k]) : warnings[k][n] = reason}

dumpLookupFailedTitles(warnings) ==
    Cardinality(HasReason(warnings, WarningReason.TITLE_RESOLUTION_NOT_FOUND))

duplicateChapters(warnings) == HasReason(warnings, WarningReason.DUPLICATE_CHAPTER)

partialGroupMatches(warnings) == HasReason(warnings, WarningReason.PARTIAL_GROUP_MATCH)

\* hasIssues that looks at the lookup flags only
hasIssues_FlagsOnly(warnings, failed, failedGroups) ==
    \/ failed
    \/ failedGroups > 0

hasIssues(warnings, failed, failedGroups) ==
    \/ \E k \in 1..Len(warnings) : Len(warnings[k]) > 0
    \/ duplicateChapters(warnings) # {}
    \/ failed
    \/ failedGroups > 0
    \/ dumpLookupFailedTitles(warnings) > 0
    \/ partialGroupMatches(warnings) # {}

recalculateFailedTitles(warnings, failedGroups) ==
    dumpLookupFailedTitles(warnings) > 0 \/ failedGroups > 0

ReadySteps == {"READY", "READY_WARNING"}

\* the step and the flag once the effect that watches the warnings has run
WarningEffect(step, warnings, failed, failedGroups) ==
    IF step \notin ReadySteps
    THEN [step |-> step, failed |-> failed]
    ELSE [step |-> IF hasIssues(warnings, recalculateFailedTitles(warnings, failedGroups),
                                failedGroups)
                   THEN "READY_WARNING" ELSE "READY",
          failed |-> recalculateFailedTitles(warnings, failedGroups)]

NoWarnings(chapterList) == [k \in 1..Len(chapterList) |-> <<>>]

EditorInit ==
    /\ seriesId \in {NULL, "series"}
    /\ chapterStates \in LocalChapterLists
    /\ aggregate \in Aggregates
    /\ chapterWarnings = NoWarnings(chapterStates)
    /\ processingStep = "SERIES_LOOKUP"
    /\ dumpLookupFailed = FALSE
    /\ dumpLookupFailedGroups = 0
    /\ lastProcessedSeriesId = NULL
    /\ automationActive = TRUE
    /\ zipStatus = "PENDING"
    /\ editorPc = "lookupSeries"
    /\ duplicatesChecked = "no"
    /\ pipelineTrace = <<>>
    /\ uploadStarted = <<>>
    /\ EngineUnused
    /\ LimiterUnused
    /\ ChainUnused
    /\ UploaderUnused
    /\ ResolverUnused
    /\ OrchestratorUnused
    /\ ChapterEditorUnused

\* the pipeline has ended in the step: the effect that runs the pipeline
\* again for a series id not yet processed comes first, then the effect
\* that watches the warnings
SetReady(step, warnings) ==
    IF seriesId # NULL /\ seriesId # lastProcessedSeriesId
    THEN /\ lastProcessedSeriesId' = seriesId
         /\ processingStep' = "SERIES_LOOKUP"
         /\ editorPc' = "lookupSeries"
         /\ UNCHANGED dumpLookupFailed
    ELSE \E e \in {WarningEffect(step, warnings, dumpLookupFailed, dumpLookupFailedGroups)} :
            /\ processingStep' = e.step
            /\ dumpLookupFailed' = e.failed
            /\ editorPc' = "idle"
            /\ UNCHANGED lastProcessedSeriesId

\* stepLookupSeries; without a series id the pipeline stops at READY_WARNING
StepLookupSeries ==
    /\ editorPc = "lookupSeries"
    /\ IF seriesId = NULL
       THEN \E e \in {WarningEffect("READY_WARNING", chapterWarnings, dumpLookupFailed,
                                    dumpLookupFailedGroups)} :
               /\ processingStep' = e.step
               /\ dumpLookupFailed' = e.failed
               /\ editorPc' = "idle"
       ELSE /\ processingStep' = "LOADING_GROUPS"
            /\ editorPc' = "loadGroups"
            /\ UNCHANGED dumpLookupFailed
    /\ pipelineTrace' = <<>>
    /\ UNCHANGED <<seriesId, chapterStates, aggregate, chapterWarnings,
                   dumpLookupFailedGroups, lastProcessedSeriesId, automationActive,
                   zipStatus, duplicatesChecked, uploadStarted>>
    /\ UNCHANGED <<engineVars, limiterVars, chainVars, uploaderVars, resolverVars, orchestratorVars, chapterEditorVars>>

\* stepLoadGroups: the series has no entries, or every group is found, or
\* some group is not
StepLoadGroups ==
    /\ editorPc = "loadGroups"
    /\ \E found \in {"no entries", "all groups", "not all groups"} :
           /\ dumpLookupFailed' = (dumpLookupFailed \/ found # "all groups")
           /\ dumpLookupFailedGroups' =
                  CASE found = "no entries" -> dumpLookupFailedGroups
                    [] found = "all groups" -> 0
                    [] found = "not all groups" -> 1
    /\ processingStep' = "APPLYING_TITLES"
    /\ editorPc' = "applyTitles"
    /\ UNCHANGED <<seriesId, chapterStates, aggregate, chapterWarnings,
                   lastProcessedSeriesId, automationActive, zipStatus, duplicatesChecked,
                   pipelineTrace, uploadStarted>>
    /\ UNCHANGED <<engineVars, limiterVars, chainVars, uploaderVars, resolverVars, orchestratorVars, chapterEditorVars>>

\* stepApplyTitles
StepApplyTitles ==
    /\ editorPc = "applyTitles"
    /\ \E fromApplier \in ResultsFor(chapterStates) :
           /\ chapterStates' = applyChangesToChapterStates(chapterStates, fromApplier)
           /\ chapterWarnings' = applyTitlesToChapters(chapterWarnings, fromApplier)
           /\ dumpLookupFailed' =
                  (dumpLookupFailed \/ \E k \in 1..Len(fromApplier) :
                                           fromApplier[k].status = ChangeStatus.FAILED)
    /\ editorPc' = "checkDuplicates"
    /\ duplicatesChecked' = "no"
    /\ pipelineTrace' = Append(pipelineTrace, "applyTitlesToChapters")
    /\ UNCHANGED <<seriesId, aggregate, processingStep,
                   dumpLookupFailedGroups, lastProcessedSeriesId, automationActive,
                   zipStatus, uploadStarted>>
    /\ UNCHANGED <<engineVars, limiterVars, chainVars, uploaderVars, resolverVars, orchestratorVars, chapterEditorVars>>

\* the chapter as it was before the corrections its warnings tell of
Uncorrected(chapter, warnings) ==
    [chapter EXCEPT
        !.chapterVolume = IF WarningReason.VOLUME_MISMATCH \in Range(warnings)
                          THEN OtherVolume(@) ELSE @,
        !.groupIds = IF WarningReason.PARTIAL_GROUP_MATCH \in Range(warnings)
                     THEN @ \ {"g2"} ELSE @]

\* the check reading the chapters as they were before applyTitlesToChapters
\* corrected them
DuplicatesChecked_BeforeCorrections(fetched) ==
    /\ chapterWarnings' =
           IF fetched
           THEN checkForDuplicates(aggregate,
                                   [k \in 1..Len(chapterStates) |->
                                       Uncorrected(chapterStates[k], chapterWarnings[k])],
                                   chapterWarnings)
           ELSE chapterWarnings
    /\ duplicatesChecked' = IF fetched THEN "yes" ELSE "failed"
    /\ pipelineTrace' = Append(pipelineTrace, "checkForDuplicates")

\* the aggregate arrives, or its request fails, and checkForDuplicates ends
DuplicatesChecked(fetched) ==
    /\ chapterWarnings' = IF fetched
                          THEN checkForDuplicates(aggregate, chapterStates, chapterWarnings)
                          ELSE chapterWarnings
    /\ duplicatesChecked' = IF fetched THEN "yes" ELSE "failed"
    /\ pipelineTrace' = Append(pipelineTrace, "checkForDuplicates")

\* step 8 with a checkForDuplicates that lets the failure of the request
\* through to the catch of the pipeline
CheckForDuplicates_Throwing ==
    /\ editorPc = "checkDuplicates"
    /\ \E fetched \in BOOLEAN :
           /\ DuplicatesChecked(fetched)
           /\ zipStatus' = IF fetched THEN zipStatus ELSE "ERROR"
           /\ SetReady(IF ~fetched \/ hasIssues(chapterWarnings', dumpLookupFailed,
                                                 dumpLookupFailedGroups)
                       THEN "READY_WARNING" ELSE "READY", chapterWarnings')
    /\ UNCHANGED <<seriesId, chapterStates, aggregate, dumpLookupFailedGroups,
                   automationActive, uploadStarted>>
    /\ UNCHANGED <<engineVars, limiterVars, chainVars, uploaderVars, resolverVars, orchestratorVars, chapterEditorVars>>

\* step 8 of the pipeline and the step it ends in
CheckForDuplicates ==
    /\ editorPc = "checkDuplicates"
    /\ \E fetched \in BOOLEAN : DuplicatesChecked(fetched)
    /\ SetReady(IF hasIssues(chapterWarnings', dumpLookupFailed, dumpLookupFailedGroups)
                THEN "READY_WARNING" ELSE "READY", chapterWarnings')
    /\ UNCHANGED <<seriesId, chapterStates, aggregate, dumpLookupFailedGroups,
                   automationActive, zipStatus, uploadStarted>>
    /\ UNCHANGED <<engineVars, limiterVars, chainVars, uploaderVars, resolverVars, orchestratorVars, chapterEditorVars>>

\* a group is assigned to a chapter and reEvaluateWarningsAfterBatchAssign
\* runs up to its request for the aggregate
BatchAssign ==
    /\ editorPc = "idle"
    /\ processingStep \in ReadySteps
    /\ zipStatus = "PENDING"
    /\ seriesId # NULL
    /\ \E k \in 1..Len(chapterStates), groupIds \in LocalGroupIds :
           /\ groupIds # chapterStates[k].groupIds
           /\ \E fromApplier \in ResultsFor([chapterStates EXCEPT ![k].groupIds = groupIds]) :
                  /\ chapterStates' = applyChangesToChapterStates(
                                          [chapterStates EXCEPT ![k].groupIds = groupIds],
                                          fromApplier)
                  /\ chapterWarnings' = applyTitlesToChapters(chapterWarnings, fromApplier)
    /\ \E e \in {WarningEffect(processingStep, chapterWarnings', dumpLookupFailed,
                                dumpLookupFailedGroups)} :
           /\ processingStep' = e.step
           /\ dumpLookupFailed' = e.failed
    /\ editorPc' = "recheckDuplicates"
    /\ duplicatesChecked' = "no"
    /\ pipelineTrace' = <<"applyTitlesToChapters">>
    /\ UNCHANGED <<seriesId, aggregate, dumpLookupFailedGroups, lastProcessedSeriesId,
                   automationActive, zipStatus, uploadStarted>>
    /\ UNCHANGED <<engineVars, limiterVars, chainVars, uploaderVars, resolverVars, orchestratorVars, chapterEditorVars>>

\* the aggregate arrives for reEvaluateWarningsAfterBatchAssign
RecheckDuplicates ==
    /\ editorPc = "recheckDuplicates"
    /\ \E fetched \in BOOLEAN : DuplicatesChecked(fetched)
    /\ \E e \in {WarningEffect(processingStep, chapterWarnings', dumpLookupFailed,
                                dumpLookupFailedGroups)} :
           /\ processingStep' = e.step
           /\ dumpLookupFailed' = e.failed
    /\ editorPc' = "idle"
    /\ UNCHANGED <<seriesId, chapterStates, aggregate, dumpLookupFailedGroups,
                   lastProcessedSeriesId, automationActive, zipStatus, uploadStarted>>
    /\ UNCHANGED <<engineVars, limiterVars, chainVars, uploaderVars, resolverVars, orchestratorVars, chapterEditorVars>>

isReady ==
    /\ processingStep = "READY"
    /\ lastProcessedSeriesId = seriesId \/ seriesId = NULL

canStartUpload == processingStep \in ReadySteps

\* startUpload(), called by the automation or by the user
startUpload(by, hasToken) ==
    IF hasToken /\ seriesId # NULL /\ Len(chapterStates) > 0 /\ canStartUpload
    THEN /\ processingStep' = "UPLOADING"
         /\ zipStatus' = "PROCESSING"
         /\ uploadStarted' = <<[by |-> by, warnings |-> chapterWarnings]>>
    ELSE /\ zipStatus' = IF by = "automation" THEN "ERROR" ELSE zipStatus
         /\ UNCHANGED <<processingStep, uploadStarted>>

\* the automation's timer fires: handleAutomationCheck
AutomationCheck ==
    /\ automationActive
    /\ processingStep \in ReadySteps
    /\ zipStatus = "PENDING"
    /\ IF processingStep = "READY_WARNING"
       THEN /\ zipStatus' = "WARNING"
            /\ UNCHANGED <<processingStep, automationActive, uploadStarted>>
       ELSE IF ~isReady
       THEN UNCHANGED <<processingStep, automationActive, zipStatus, uploadStarted>>
       ELSE \E onlyWarningsRemain, hasToken \in BOOLEAN :
               IF onlyWarningsRemain
               THEN /\ automationActive' = FALSE
                    /\ UNCHANGED <<processingStep, zipStatus, uploadStarted>>
               ELSE IF canStartUpload /\ seriesId # NULL /\ Len(chapterStates) > 0
               THEN /\ startUpload("automation", hasToken)
                    /\ UNCHANGED automationActive
               ELSE /\ zipStatus' = "WARNING"
                    /\ UNCHANGED <<processingStep, automationActive, uploadStarted>>
    /\ UNCHANGED <<seriesId, chapterStates, aggregate, chapterWarnings, dumpLookupFailed,
                   dumpLookupFailedGroups, lastProcessedSeriesId, editorPc,
                   duplicatesChecked, pipelineTrace>>
    /\ UNCHANGED <<engineVars, limiterVars, chainVars, uploaderVars, resolverVars, orchestratorVars, chapterEditorVars>>

\* the user presses the upload button, which is enabled in both READY steps
UserStartsUpload ==
    /\ processingStep \in ReadySteps
    /\ zipStatus = "PENDING"
    /\ seriesId # NULL
    /\ startUpload("user", TRUE)
    /\ UNCHANGED <<seriesId, chapterStates, aggregate, chapterWarnings, dumpLookupFailed,
                   dumpLookupFailedGroups, lastProcessedSeriesId, automationActive,
                   editorPc, duplicatesChecked, pipelineTrace>>
    /\ UNCHANGED <<engineVars, limiterVars, chainVars, uploaderVars, resolverVars, orchestratorVars, chapterEditorVars>>

EditorNext ==
    \/ StepLookupSeries
    \/ StepLoadGroups
    \/ StepApplyTitles
    \/ CheckForDuplicates
    \/ BatchAssign
    \/ RecheckDuplicates
    \/ AutomationCheck
    \/ UserStartsUpload

SpecEditor == EditorInit /\ [][EditorNext]_vars

\* -------------------------------------------------- the claims on the editor
Flagged(k) ==
    \E n \in 1..Len(chapterWarnings[k]) :
        chapterWarnings[k][n] = WarningReason.DUPLICATE_CHAPTER

\* the published entries under the key of the local chapter k, each as the
\* set of its groups
PublishedAt(k) ==
    {{AggregateGroups[x] : x \in groupIndices \cap DOMAIN AggregateGroups} :
        groupIndices \in UNION {c.entries : c \in
            {d \in aggregate : /\ OrNone(d.volume) = OrNone(chapterStates[k].chapterVolume)
                               /\ OrNone(d.chapter) = OrNone(chapterStates[k].chapterNumber)}}}

IsMarker(group) == group.name = "No Group" /\ group.id = ""

\* C25: once the duplicates were checked, a local chapter carries the
\* DUPLICATE_CHAPTER warning exactly when some published entry under its
\* "volume:chapter" key either has no "No Group" marker and shares a group id
\* with it, or consists of the marker alone while the chapter has no group;
\* a chapter without groups is not flagged when every entry under its key
\* has a real group.
C25_DuplicateIffMatchingEntry ==
    duplicatesChecked = "yes" =>
        \A k \in 1..Len(chapterStates) :
            /\ Flagged(k) <=>
                  \E groups \in PublishedAt(k) :
                      \/ /\ \A g \in groups : ~IsMarker(g)
                         /\ \E g \in groups : g.id \in chapterStates[k].groupIds
                      \/ /\ groups # {}
                         /\ \A g \in groups : IsMarker(g)
                         /\ chapterStates[k].groupIds = {}
            /\ (/\ chapterStates[k].groupIds = {}
                /\ \A groups \in PublishedAt(k) : \E g \in groups : ~IsMarker(g)) =>
                   ~Flagged(k)

C25_Witness ==
    /\ duplicatesChecked = "yes"
    /\ \E k, j \in 1..Len(chapterStates) :
           /\ chapterStates[k].groupIds # {}
           /\ Flagged(k)
           /\ chapterStates[j].groupIds = {}
           /\ ~Flagged(j)
           /\ \E groups \in PublishedAt(j) : \E g, h \in groups : IsMarker(g) /\ ~IsMarker(h)

CarriesWarning(warnings) == \E k \in 1..Len(warnings) : warnings[k] # <<>>

\* C26: the step is READY only when no chapter has a warning; the automation
\* has never called startUpload() while a chapter had a warning; and its
\* check in READY_WARNING marks the zip WARNING and starts no upload.
C26_AutomationSkipsWarnings ==
    /\ [](/\ processingStep = "READY" => ~CarriesWarning(chapterWarnings)
          /\ \A n \in 1..Len(uploadStarted) :
                 uploadStarted[n].by = "automation" => ~CarriesWarning(uploadStarted[n].warnings))
    /\ [][(AutomationCheck /\ processingStep = "READY_WARNING") =>
              /\ zipStatus' = "WARNING"
              /\ UNCHANGED <<processingStep, uploadStarted>>]_vars

C26_Witness ==
    /\ zipStatus = "WARNING"
    /\ processingStep = "READY_WARNING"
    /\ CarriesWarning(chapterWarnings)
    /\ automationActive
    /\ uploadStarted = <<>>

\* C33: in every pipeline path checkForDuplicates runs once and only after
\* applyTitlesToChapters, and what it flags is decided by the chapters as
\* corrected: their volume and group set at the end of applyTitlesToChapters.
C33_DuplicatesAfterCorrections ==
    /\ pipelineTrace \in {<<>>, <<"applyTitlesToChapters">>,
                          <<"applyTitlesToChapters", "checkForDuplicates">>}
    /\ editorPc \in {"idle", "lookupSeries"} =>
           pipelineTrace \in {<<>>, <<"applyTitlesToChapters", "checkForDuplicates">>}
    /\ (/\ pipelineTrace = <<"applyTitlesToChapters", "checkForDuplicates">>
        /\ duplicatesChecked = "yes") =>
           \A k \in 1..Len(chapterStates) :
               Flagged(k) <=> IsDuplicate(aggregate, chapterStates[k])

\* a chapter whose volume was corrected is flagged for the corrected volume;
\* under the volume it had before, it is no duplicate
C33_Witness ==
    /\ editorPc = "idle"
    /\ pipelineTrace = <<"applyTitlesToChapters", "checkForDuplicates">>
    /\ duplicatesChecked = "yes"
    /\ \E k \in 1..Len(chapterStates) :
           /\ WarningReason.VOLUME_MISMATCH \in Range(chapterWarnings[k])
           /\ Flagged(k)
           /\ ~IsDuplicate(aggregate, Uncorrected(chapterStates[k], chapterWarnings[k]))

\* the duplicate warnings of a warning list
DuplicatesOf(warnings) == SeqFilter(warnings, {WarningReason.DUPLICATE_CHAPTER})

\* C34: however often the chapters are re-evaluated, no reason occurs twice in
\* a chapter's warnings; checkForDuplicates leaves the warnings other than
\* DUPLICATE_CHAPTER as they are, and applyTitlesToChapters leaves the
\* DUPLICATE_CHAPTER warnings as they are.  (A step that takes pipelineTrace
\* to two entries is a run of checkForDuplicates, one that takes it to one
\* entry a run of applyTitlesToChapters.)
C34_WarningsNeverAccumulate ==
    /\ [](\A k \in 1..Len(chapterWarnings) :
             \A m, n \in 1..Len(chapterWarnings[k]) :
                 chapterWarnings[k][m] = chapterWarnings[k][n] => m = n)
    /\ [][(Len(pipelineTrace) = 1 /\ Len(pipelineTrace') = 2) =>
              \A k \in 1..Len(chapterWarnings) :
                  WithoutDuplicates(chapterWarnings'[k]) = WithoutDuplicates(chapterWarnings[k])]_vars
    /\ [][(Len(pipelineTrace) # 1 /\ Len(pipelineTrace') = 1) =>
              \A k \in 1..Len(chapterWarnings) :
                  DuplicatesOf(chapterWarnings'[k]) = DuplicatesOf(chapterWarnings[k])]_vars

\* the pipeline has run twice (the series id makes it run again) and a batch
\* assignment was re-evaluated: a chapter flagged each time carries the
\* duplicate warning and the two of the applier once each
C34_Witness ==
    /\ editorPc = "idle"
    /\ seriesId # NULL
    /\ \E k \in 1..Len(chapterWarnings) :
           chapterWarnings[k] = <<WarningReason.VOLUME_MISMATCH,
                                  WarningReason.PARTIAL_GROUP_MATCH,
                                  WarningReason.DUPLICATE_CHAPTER>>

\* C37: a run of checkForDuplicates whose request for the aggregate fails
\* leaves the warnings of every chapter and the status of the zip as they
\* were, and when no chapter has a warning and no lookup has failed the step
\* it ends in is READY (or the pipeline is run again for the series id, which
\* had not been processed).  A re-evaluation overtaken by the start of the
\* upload ends in no step.
C37_FailedLookupIsHarmless ==
    [][(/\ Len(pipelineTrace) = 1
        /\ Len(pipelineTrace') = 2
        /\ duplicatesChecked' = "failed") =>
          /\ chapterWarnings' = chapterWarnings
          /\ zipStatus' = zipStatus
          /\ (/\ processingStep # "UPLOADING"
              /\ ~CarriesWarning(chapterWarnings)
              /\ ~dumpLookupFailed
              /\ dumpLookupFailedGroups = 0) =>
                 \/ processingStep' = "READY"
                 \/ /\ seriesId # lastProcessedSeriesId
                    /\ lastProcessedSeriesId' = seriesId
                    /\ editorPc' = "lookupSeries"]_vars

\* the pipeline has ended in READY though the aggregate could not be fetched
C37_Witness ==
    /\ editorPc = "idle"
    /\ seriesId # NULL
    /\ duplicatesChecked = "failed"
    /\ processingStep = "READY"
    /\ pipelineTrace = <<"applyTitlesToChapters", "checkForDuplicates">>
    /\ \E k \in 1..Len(chapterStates) : IsDuplicate(aggregate, chapterStates[k])

\* ===========================================================================
\* Part 6.  The resolver's lazy load and the lookups made through it
\* (ChapterTitleExportResolver.load, ensureLoaded and the lookup methods;
\* ReleaseLookup.findReleasesForChapter).
\* ===========================================================================

\* the single row of the language at the key, or null
getUniqueChapterInfo_FirstOfMany(rows, volume, chapter, language) ==
    LET infos == LanguageFiltered(EntriesAt(rows, MakeKey(OrEmpty(volume), OrEmpty(chapter))),
                                  language)
    IN IF Len(infos) = 0 THEN None ELSE Some(BuildResolved(infos[1]))

getUniqueChapterInfo(rows, volume, chapter, language) ==
    LET infos == LanguageFiltered(EntriesAt(rows, MakeKey(OrEmpty(volume), OrEmpty(chapter))),
                                  language)
    IN IF Len(infos) # 1 THEN None ELSE Some(BuildResolved(infos[1]))

\* the single row of the language under the keys whose chapter piece is the
\* chapter, with the volume piece of its key, or null
getUniqueChapterInfoByChapter(rows, chapter, language) ==
    LET keys == SeriesKeys(rows)
        matchingChapters ==
            Flatten([k \in 1..Len(keys) |->
                        IF SplitKey(keys[k]).chapterNum = chapter
                        THEN LET infos == LanguageFiltered(EntriesAt(rows, keys[k]), language)
                             IN [n \in 1..Len(infos) |->
                                    [volume |-> SplitKey(keys[k]).volume, info |-> infos[n]]]
                        ELSE <<>>])
    IN IF ~Truthy(chapter) \/ Len(matchingChapters) # 1 THEN None
       ELSE Some([volume |-> matchingChapters[1].volume,
                  info |-> BuildResolved(matchingChapters[1].info)])

\* the calls a caller makes on the resolver
LoadCall == [method |-> "load"]

UniqueCalls ==
    [method : {"getUniqueChapterInfo"}, volume : {NULL, "1"}, chapter : {"5"},
     language : {"en"}]

UniqueByChapterCalls ==
    [method : {"getUniqueChapterInfoByChapter"}, chapter : {NULL, "5"}, language : {"en"}]

ExactCalls ==
    [method : {"findReleasesForChapter"}, volume : {NULL, "1"}, chapter : {"5"},
     language : {"en"}, groupNames : {<<>>, <<"Foo">>}]

FallbackCalls ==
    [method : {"getChapterInfoByChapterAndGroups"}, chapter : {"5"}, language : {"en"},
     groupNames : {<<>>, <<"F">>}]

ResolverCalls ==
    {LoadCall} \cup UniqueCalls \cup UniqueByChapterCalls \cup ExactCalls \cup FallbackCalls

\* what the call returns on the loaded rows
Answer(call, rows) ==
    CASE call.method = "load" -> None
      [] call.method = "getUniqueChapterInfo" ->
             getUniqueChapterInfo(rows, call.volume, call.chapter, call.language)
      [] call.method = "getUniqueChapterInfoByChapter" ->
             getUniqueChapterInfoByChapter(rows, call.chapter, call.language)
      [] call.method = "findReleasesForChapter" ->
             findReleasesForChapter(rows, call.volume, call.chapter, call.language,
                                    call.groupNames)
      [] call.method = "getChapterInfoByChapterAndGroups" ->
             getChapterInfoByChapterAndGroups(rows, call.chapter, call.groupNames,
                                              call.language)

QueryCallers == 1..MaxQueryCallers

Idle == [pc |-> "idle"]

\* load() going on to fetch although a load was started before
StartsFetch_IgnoringPromise(loaded, promise) == loaded = None /\ promise # "pending"

\* load() goes on to fetch: there is no data and no load was started
StartsFetch(loaded, promise) == loaded = None /\ promise = "none"

ResolverInit ==
    /\ csv \in Datasets
    /\ resolverData = None
    /\ loadPromise = "none"
    /\ fetches = 0
    /\ queryCallers = [p \in QueryCallers |-> Idle]
    /\ EngineUnused
    /\ LimiterUnused
    /\ ChainUnused
    /\ UploaderUnused
    /\ EditorUnused
    /\ OrchestratorUnused
    /\ ChapterEditorUnused

\* the caller's call has ended: it returned the answer, or it rejected
Ended(p, call, hasWaited, rejected) ==
    queryCallers' =
        [queryCallers EXCEPT ![p] =
            [pc |-> "done", call |-> call, waited |-> hasWaited, rejected |-> rejected,
             answer |-> IF rejected THEN None ELSE Answer(call, resolverData[1])]]

\* a caller calls load() or a lookup, which starts with ensureLoaded(): up
\* to the first promise it has to wait for
Call(p) ==
    /\ queryCallers[p].pc \in {"idle", "done"}
    /\ \E call \in ResolverCalls :
           IF resolverData # None
           THEN /\ Ended(p, call, FALSE, FALSE)
                /\ UNCHANGED <<loadPromise, fetches>>
           ELSE IF StartsFetch(resolverData, loadPromise)
           THEN /\ fetches < MaxFetches
                /\ fetches' = fetches + 1
                /\ loadPromise' = "pending"
                /\ queryCallers' = [queryCallers EXCEPT ![p] = [pc |-> "waiting", call |-> call]]
           ELSE /\ queryCallers' = [queryCallers EXCEPT ![p] = [pc |-> "waiting", call |-> call]]
                /\ UNCHANGED <<loadPromise, fetches>>
    /\ UNCHANGED <<csv, resolverData>>
    /\ UNCHANGED <<engineVars, limiterVars, chainVars, uploaderVars, editorVars, orchestratorVars, chapterEditorVars>>

\* the fetch of chapter_dump.csv settles: the rows are parsed and stored, or
\* the load has failed
FetchSettles ==
    /\ loadPromise = "pending"
    /\ \E ok \in BOOLEAN :
           IF ok
           THEN resolverData' = Some(csv) /\ loadPromise' = "resolved"
           ELSE loadPromise' = "rejected" /\ UNCHANGED resolverData
    /\ UNCHANGED <<csv, fetches, queryCallers>>
    /\ UNCHANGED <<engineVars, limiterVars, chainVars, uploaderVars, editorVars, orchestratorVars, chapterEditorVars>>

\* a caller that waited for the load goes on
Resume(p) ==
    /\ queryCallers[p].pc = "waiting"
    /\ loadPromise \in {"resolved", "rejected"}
    /\ Ended(p, queryCallers[p].call, TRUE, loadPromise = "rejected")
    /\ UNCHANGED <<csv, resolverData, loadPromise, fetches>>
    /\ UNCHANGED <<engineVars, limiterVars, chainVars, uploaderVars, editorVars, orchestratorVars, chapterEditorVars>>

ResolverNext ==
    \/ \E p \in QueryCallers : Call(p)
    \/ FetchSettles
    \/ \E p \in QueryCallers : Resume(p)

SpecResolver == ResolverInit /\ [][ResolverNext]_vars

\* ------------------------------------------------ the claims on the resolver
Done(p) == queryCallers[p].pc = "done" /\ ~queryCallers[p].rejected

\* the rows of the loaded data in the order the lookups go through them: key
\* by key in the order the keys were created, file order under a key
IndexOrder(rows) ==
    Flatten([k \in 1..Len(SeriesKeys(rows)) |-> EntriesAt(rows, SeriesKeys(rows)[k])])

\* the row is of the language and the chapter, of the volume too in the exact
\* lookup, and passes the group filter of the call
Qualifies(row, call) ==
    /\ row.language = call.language
    /\ row.chapter = OrEmpty(call.chapter)
    /\ call.method = "findReleasesForChapter" => row.volume = OrEmpty(call.volume)
    /\ IF call.groupNames = <<>>
       THEN row.groups = <<>>
       ELSE \E g \in 1..Len(row.groups), n \in 1..Len(call.groupNames) :
               \/ row.groups[g].primaryName = call.groupNames[n]
               \/ \E a \in 1..Len(row.groups[g].altNames) :
                      row.groups[g].altNames[a] = call.groupNames[n]

InfoOf(answer) == IF "info" \in DOMAIN answer[1] THEN answer[1].info ELSE answer[1]

\* C27: an exact or fallback lookup that returns an entry returns the first
\* row, in the order of the loaded data, that has the language and the
\* chapter of the query and passes its group filter: a group named by one of
\* the query's group names, or no groups when the query names none.
C27_LookupReturnsFirstQualifying ==
    \A p \in QueryCallers :
        (/\ Done(p)
         /\ queryCallers[p].call.method \in
                {"findReleasesForChapter", "getChapterInfoByChapterAndGroups"}
         /\ queryCallers[p].answer # None) =>
            \E k \in 1..Len(IndexOrder(resolverData[1])) :
                /\ Qualifies(IndexOrder(resolverData[1])[k], queryCallers[p].call)
                /\ \A j \in 1..(k - 1) :
                       ~Qualifies(IndexOrder(resolverData[1])[j], queryCallers[p].call)
                /\ InfoOf(queryCallers[p].answer) = BuildResolved(IndexOrder(resolverData[1])[k])

\* the rows of the language and the chapter, of the volume too for
\* getUniqueChapterInfo
Candidates(call, rows) ==
    {k \in 1..Len(rows) :
        /\ rows[k].language = call.language
        /\ rows[k].chapter = OrEmpty(call.chapter)
        /\ call.method = "getUniqueChapterInfo" => rows[k].volume = OrEmpty(call.volume)}

\* C28: getUniqueChapterInfo and getUniqueChapterInfoByChapter return a
\* result only when exactly one row of the language is at the volume|chapter
\* key, respectively has the chapter in any volume, and the result is that
\* row's, whatever its groups; with no such row or several they return null.
C28_UniqueLookupsNeedExactlyOne ==
    \A p \in QueryCallers :
        (/\ Done(p)
         /\ queryCallers[p].call.method \in
                {"getUniqueChapterInfo", "getUniqueChapterInfoByChapter"}) =>
            /\ Cardinality(Candidates(queryCallers[p].call, resolverData[1])) # 1 =>
                   queryCallers[p].answer = None
            /\ queryCallers[p].answer # None =>
                   \E k \in Candidates(queryCallers[p].call, resolverData[1]) :
                       InfoOf(queryCallers[p].answer) = BuildResolved(resolverData[1][k])

C28_Witness ==
    \E p, q \in QueryCallers :
        /\ Done(p)
        /\ Done(q)
        /\ queryCallers[p].call.method = "getUniqueChapterInfo"
        /\ queryCallers[q].call.method = "getUniqueChapterInfoByChapter"
        /\ queryCallers[p].answer # None
        /\ queryCallers[q].answer = None
        /\ Cardinality(Candidates(queryCallers[q].call, resolverData[1])) = 2
        /\ InfoOf(queryCallers[p].answer).groups # <<>>

\* C29: the dataset is fetched at most once, also after a failed fetch; a
\* caller that waited for the load rejects exactly when the load failed and
\* otherwise answers from the loaded data; loaded data is never changed.
C29_LoadsOnce ==
    /\ [](/\ fetches <= 1
          /\ \A p \in QueryCallers :
                 (queryCallers[p].pc = "done" /\ queryCallers[p].waited) =>
                     /\ queryCallers[p].rejected <=> loadPromise = "rejected"
                     /\ ~queryCallers[p].rejected =>
                            /\ resolverData = Some(csv)
                            /\ queryCallers[p].answer = Answer(queryCallers[p].call, csv))
    /\ [][resolverData # None => resolverData' = resolverData]_vars

C29_Witness ==
    /\ loadPromise = "rejected"
    /\ fetches = 1
    /\ \A p \in QueryCallers :
           /\ queryCallers[p].pc = "done"
           /\ queryCallers[p].waited
           /\ queryCallers[p].rejected
    /\ queryCallers[1].call.method = "load"
    /\ queryCallers[2].call.method = "getUniqueChapterInfo"

\* ===========================================================================
\* Part 7.  The uploader orchestrator: startUpload(), called by its Start
\* button and by the timeout of the editor's upload-trigger effect, and the
\* runs of the ChapterUploaders it creates (UploaderOrchestrator.svelte,
\* GuidedChapterEditor.svelte).
\* ===========================================================================

\* a ChapterUploader whose uploadAll() has run up to its first await: the
\* token and the chapters are there, so its status is IN_PROGRESS
NewChapterUploader ==
    [status |-> "IN_PROGRESS", pc |-> "deleteSessions", chaptersToUpload |-> <<>>,
     currentChapterIndex |-> 0]

\* the indices of s in ascending order whose element is in keep
RECURSIVE IndicesIn(_, _)
IndicesIn(s, keep) ==
    IF s = <<>> THEN <<>>
    ELSE IndicesIn(SubSeq(s, 1, Len(s) - 1), keep)
         \o (IF s[Len(s)] \in keep THEN <<Len(s)>> ELSE <<>>)

OrchestratorInit ==
    /\ orchestratorStep = "READY"
    /\ automationIsActive \in BOOLEAN
    /\ uploadTimer = "none"
    /\ isUploading = FALSE
    /\ chapterUploaders = <<>>
    /\ orchestratorChapters \in UNION {[1..n -> {"NOT_STARTED"}] : n \in 1..MaxOrchestratorChapters}
    /\ EngineUnused
    /\ LimiterUnused
    /\ ChainUnused
    /\ UploaderUnused
    /\ EditorUnused
    /\ ResolverUnused
    /\ ChapterEditorUnused

\* the editor's startUpload() has gone through: the step is UPLOADING, the
\* orchestrator is mounted, and with the automation active the
\* upload-trigger effect sets its timeout
EditorStartsUpload ==
    /\ orchestratorStep = "READY"
    /\ orchestratorStep' = "UPLOADING"
    /\ uploadTimer' = IF automationIsActive THEN "set" ELSE "none"
    /\ UNCHANGED <<automationIsActive, isUploading, chapterUploaders, orchestratorChapters>>
    /\ UNCHANGED <<engineVars, limiterVars, chainVars, uploaderVars, editorVars, resolverVars, chapterEditorVars>>

\* startUpload() of the orchestrator (the token, the series id and the
\* chapters are there: the editor's startUpload() has checked them): the
\* FAILED chapters are reset, a new ChapterUploader is created and its
\* uploadAll() called
OrchestratorStartUpload ==
    /\ orchestratorChapters' =
           [k \in 1..Len(orchestratorChapters) |->
               IF orchestratorChapters[k] = "FAILED" THEN "NOT_STARTED"
               ELSE orchestratorChapters[k]]
    /\ chapterUploaders' = Append(chapterUploaders, NewChapterUploader)
    /\ isUploading' = TRUE

\* the Start button of the orchestrator, disabled while isUploading
StartPressed ==
    /\ orchestratorStep = "UPLOADING"
    /\ ~isUploading
    /\ OrchestratorStartUpload
    /\ UNCHANGED <<orchestratorStep, automationIsActive, uploadTimer>>
    /\ UNCHANGED <<engineVars, limiterVars, chainVars, uploaderVars, editorVars, resolverVars, chapterEditorVars>>

\* the timeout of the upload-trigger effect: uploaderOrchestratorRef?.startUpload()
UploadTimerFires ==
    /\ uploadTimer = "set"
    /\ orchestratorStep = "UPLOADING"
    /\ uploadTimer' = "fired"
    /\ OrchestratorStartUpload
    /\ UNCHANGED <<orchestratorStep, automationIsActive>>
    /\ UNCHANGED <<engineVars, limiterVars, chainVars, uploaderVars, editorVars, resolverVars, chapterEditorVars>>

\* uploadAll() of uploader u after deletePreexistingUploadSessions: the
\* chapters not COMPLETED are the ones to upload
SessionsDeleted(u) ==
    /\ chapterUploaders[u].pc = "deleteSessions"
    /\ chapterUploaders' =
           [chapterUploaders EXCEPT
               ![u].chaptersToUpload =
                   IndicesIn(orchestratorChapters,
                             {"NOT_STARTED", "IN_PROGRESS", "FAILED"}),
               ![u].currentChapterIndex = 1,
               ![u].pc = "loop"]
    /\ UNCHANGED <<orchestratorStep, automationIsActive, uploadTimer, isUploading,
                   orchestratorChapters>>
    /\ UNCHANGED <<engineVars, limiterVars, chainVars, uploaderVars, editorVars, resolverVars, chapterEditorVars>>

\* the head of the loop of uploadAll(): the loop is over, or the chapter is
\* COMPLETED by now and skipped, or its upload begins
LoopHead(u) ==
    /\ chapterUploaders[u].pc = "loop"
    /\ \E run \in {chapterUploaders[u]} :
          IF run.currentChapterIndex > Len(run.chaptersToUpload)
          THEN /\ chapterUploaders' = [chapterUploaders EXCEPT ![u].status = "COMPLETED",
                                                               ![u].pc = "returned"]
               /\ UNCHANGED orchestratorChapters
          ELSE IF orchestratorChapters[run.chaptersToUpload[run.currentChapterIndex]] = "COMPLETED"
          THEN /\ chapterUploaders' =
                      [chapterUploaders EXCEPT ![u].currentChapterIndex = @ + 1]
               /\ UNCHANGED orchestratorChapters
          ELSE /\ chapterUploaders' = [chapterUploaders EXCEPT ![u].pc = "upload"]
               /\ orchestratorChapters' =
                      [orchestratorChapters EXCEPT
                          ![run.chaptersToUpload[run.currentChapterIndex]] = "IN_PROGRESS"]
    /\ UNCHANGED <<orchestratorStep, automationIsActive, uploadTimer, isUploading>>
    /\ UNCHANGED <<engineVars, limiterVars, chainVars, uploaderVars, editorVars, resolverVars, chapterEditorVars>>

\* uploadChapterWithRetry of uploader u returns: the chapter is COMPLETED and
\* the loop goes on, or it is FAILED and the run ends FAILED
ChapterUploaded(u) ==
    /\ chapterUploaders[u].pc = "upload"
    /\ \E run \in {chapterUploaders[u]}, success \in BOOLEAN :
          /\ orchestratorChapters' =
                 [orchestratorChapters EXCEPT
                     ![run.chaptersToUpload[run.currentChapterIndex]] =
                         IF success THEN "COMPLETED" ELSE "FAILED"]
          /\ chapterUploaders' =
                 IF success
                 THEN [chapterUploaders EXCEPT ![u].currentChapterIndex = @ + 1,
                                               ![u].pc = "loop"]
                 ELSE [chapterUploaders EXCEPT ![u].status = "FAILED", ![u].pc = "returned"]
    /\ UNCHANGED <<orchestratorStep, automationIsActive, uploadTimer, isUploading>>
    /\ UNCHANGED <<engineVars, limiterVars, chainVars, uploaderVars, editorVars, resolverVars, chapterEditorVars>>

\* the promise of uploadAll() of uploader u is fulfilled: isUploading is
\* false again and onDone (handleUploadDone) ends the UPLOADING step, which
\* unmounts the orchestrator and clears the timeout of the effect
UploadAllSettled(u) ==
    /\ chapterUploaders[u].pc = "returned"
    /\ chapterUploaders' = [chapterUploaders EXCEPT ![u].pc = "settled"]
    /\ isUploading' = FALSE
    /\ IF orchestratorStep = "UPLOADING"
       THEN /\ orchestratorStep' = "COMPLETED"
            /\ uploadTimer' = IF uploadTimer = "set" THEN "cleared" ELSE uploadTimer
       ELSE UNCHANGED <<orchestratorStep, uploadTimer>>
    /\ UNCHANGED <<automationIsActive, orchestratorChapters>>
    /\ UNCHANGED <<engineVars, limiterVars, chainVars, uploaderVars, editorVars, resolverVars, chapterEditorVars>>

OrchestratorNext ==
    \/ EditorStartsUpload
    \/ StartPressed
    \/ UploadTimerFires
    \/ \E u \in 1..Len(chapterUploaders) :
           \/ SessionsDeleted(u)
           \/ LoopHead(u)
           \/ ChapterUploaded(u)
           \/ UploadAllSettled(u)

SpecOrchestrator == OrchestratorInit /\ [][OrchestratorNext]_vars

\* ------------------------------------------- the claim on the orchestrator
\* the uploaders whose run is in progress
Uploading == {u \in 1..Len(chapterUploaders) : chapterUploaders[u].status = "IN_PROGRESS"}

\* C38: at any time at most one ChapterUploader is uploading the chapters: a
\* call of startUpload() while a run is in progress starts no second one.
C38_OneRunAtATime == Cardinality(Uploading) <= 1

\* ===========================================================================
\* Part 8.  The chapter editor's state: updateChapterField() on one
\* EditableChapter and the update data that is saved for it
\* (ChapterTitleExportResolver.svelte.ts, class ChapterEditorState).
\* ===========================================================================

\* the group ids the model uses, in the order of Array.prototype.sort()
EditorGroupIds == <<"g1", "g2">>

\* [...ids].sort() of an array of distinct group ids
SortIds(ids) == SeqFilter(EditorGroupIds, Range(ids))

\* a ?? b
Nullish(a, b) == IF a = NULL \/ a = UNDEFINED THEN b ELSE a

\* modified = {}: no field is set; groups is None when unset, Some(ids) when set
NoModification ==
    [chapter |-> UNDEFINED, volume |-> UNDEFINED, title |-> UNDEFINED,
     language |-> UNDEFINED, groups |-> None]

\* the ApiChapters the editor loads: title and volume are null or a text,
\* relationships.groups is absent (None) or an array in the server's order
ApiChapters ==
    [chapter : {"1"}, volume : {NULL, "1"}, title : {NULL, "A"}, language : {"en"},
     groups : {None, Some(<<>>), Some(<<"g2", "g1">>)}]

\* the values the components pass for a field
FieldValues(field) ==
    CASE field = "chapter" -> {"1", "2"}
      [] field = "volume" -> {"", "1", "2", NULL}
      [] field = "title" -> {"", "A", "B", NULL}
      [] field = "language" -> {"en", "fr"}
      [] field = "groups" -> {<<>>, <<"g1">>, <<"g1", "g2">>, <<"g2", "g1">>}

EditorFields == {"chapter", "volume", "title", "language", "groups"}

\* original.relationships.groups mapped to ids, [] when absent
OriginalGroupIdsOf(original) == IF original.groups # None THEN original.groups[1] ELSE <<>>

\* updateChapterField(chapterId, field, value) on the chapter found
updateChapterField(chapter, field, value) ==
    LET normalizedValue ==
            IF field \in {"title", "volume"} /\ value = "" THEN NULL ELSE value
        modified ==
            [chapter.modified EXCEPT
                ![field] = IF field = "groups" THEN Some(normalizedValue) ELSE normalizedValue]
        original == chapter.original
        originalGroupIds == SortIds(OriginalGroupIdsOf(original))
        \* null when modified.groups is unset, else the sorted copy
        modifiedGroupIds ==
            IF modified.groups # None THEN Some(SortIds(modified.groups[1])) ELSE None
        currentChapter == Nullish(modified.chapter, original.chapter)
        currentVolume == Nullish(modified.volume, original.volume)
        currentTitle == Nullish(modified.title, original.title)
        currentLanguage == Nullish(modified.language, original.language)
        \* JSON.stringify(null) is "null", which is the text of no array
        newIsModified ==
            \/ currentChapter # original.chapter
            \/ currentVolume # original.volume
            \/ currentTitle # original.title
            \/ currentLanguage # original.language
            \/ modifiedGroupIds # Some(originalGroupIds)
    IN  [chapter EXCEPT
            !.modified = modified,
            !.isModified = newIsModified,
            !.saveStatus = IF newIsModified /\ @ = "saved" THEN "pending" ELSE @]

\* getChapterUpdateData(chapter): what is sent when the chapter is saved
getChapterUpdateData(chapter) ==
    LET original == chapter.original
        modified == chapter.modified
    IN  [chapter |-> Nullish(modified.chapter, original.chapter),
         volume |-> Nullish(IF modified.volume # UNDEFINED THEN modified.volume
                            ELSE original.volume, ""),
         title |-> Nullish(IF modified.title # UNDEFINED THEN modified.title
                           ELSE original.title, ""),
         language |-> Nullish(modified.language, original.language),
         groups |-> IF modified.groups # None THEN modified.groups[1]
                    ELSE OriginalGroupIdsOf(original)]

\* the chapter as the load of the series built it (saveStatus pending) or as
\* updateChapterAfterSave() left it (saveStatus saved): nothing is modified
ChapterEditorInit ==
    /\ editableChapter \in
            [original : ApiChapters, modified : {NoModification}, isModified : {FALSE},
             saveStatus : {"pending", "saved"}]
    /\ EngineUnused
    /\ LimiterUnused
    /\ ChainUnused
    /\ UploaderUnused
    /\ EditorUnused
    /\ ResolverUnused
    /\ OrchestratorUnused

\* a component calls updateChapterField for the chapter
UpdateChapterField ==
    /\ \E field \in EditorFields : \E value \in FieldValues(field) :
            editableChapter' = updateChapterField(editableChapter, field, value)
    /\ UNCHANGED <<engineVars, limiterVars, chainVars, uploaderVars, editorVars, resolverVars, orchestratorVars>>

\* resetChapter(chapterId): the user discards the chapter's changes
ResetChapter ==
    /\ editableChapter' =
            [editableChapter EXCEPT
                !.modified = NoModification, !.isModified = FALSE, !.saveStatus = "pending"]
    /\ UNCHANGED <<engineVars, limiterVars, chainVars, uploaderVars, editorVars, resolverVars, orchestratorVars>>

ChapterEditorNext == UpdateChapterField \/ ResetChapter

SpecChapterEditor == ChapterEditorInit /\ [][ChapterEditorNext]_vars

\* the chapter with no field modified
Unmodified(chapter) == [chapter EXCEPT !.modified = NoModification]

\* the effective value of a field differs from the original: the modified
\* value when one was set, an explicit null included, else the original
EffectiveDiffers(chapter) ==
    LET current == getChapterUpdateData(chapter)
        loaded == getChapterUpdateData(Unmodified(chapter))
    IN  \/ \E field \in {"chapter", "volume", "title", "language"} :
                current[field] # loaded[field]
        \/ Range(current.groups) # Range(loaded.groups)

\* C39: after any sequence of updateChapterField calls isModified is true
\* exactly if the effective chapter, volume, title, language or group set
\* differs from the original: a title or volume cleared to null counts, a
\* field set back to its original value does not.
C39_IsModifiedIffDiffers ==
    editableChapter.isModified <=> EffectiveDiffers(editableChapter)

====
